---------------------------- MODULE Spec2Model ----------------------------
(***************************************************************************)
(* Model of the recording matcher of media_organizer                       *)
(* (scripts/series_folder_crawler.py): text normalisation, the scan of the *)
(* sidecars, the candidate pool, the four matching passes and the assembly *)
(* of the result; and of the merge of the per-source metadata              *)
(* (scripts/Season_Episode_builder.py, fetch_metadata).                    *)
(*                                                                         *)
(* Specifications: Spec (the pass loop of build_episode_groups), PoolSpec  *)
(* (the same run from the building of the pool on), FilesSpec (the same    *)
(* run in folders with media files), ScanSpec (scan_xml_metadata) and      *)
(* MergeSpec (fetch_metadata).                                             *)
(*                                                                         *)
(* Text is a sequence of one-character strings.  A similarity ratio is an  *)
(* integer number of hundredths, rounded down; every comparison the code   *)
(* makes is against a whole number of hundredths, so the rounding changes  *)
(* no comparison.                                                          *)
(***************************************************************************)
EXTENDS Integers, Sequences, FiniteSets, TLC

(***************************************************************************)
(* Bounds of the model.                                                    *)
(***************************************************************************)
MaxEpisodes == 3
MaxXml == 2

(***************************************************************************)
(* Program constants (module globals of series_folder_crawler.py).         *)
(***************************************************************************)
PASS4_THRESHOLD == 12
PASS2_THRESHOLD == 80
PASS3_THRESHOLD == 80
PASS4_TITLE_GUARD == 60
PASS4_SPECIALS_GUARD == 90
WINDOW_SIZE == 10

(***************************************************************************)
(* Characters.  "I." stands for U+0130 (capital I with dot above), whose   *)
(* lower case is "i" followed by the combining dot U+0307, written ".^".   *)
(* "G+" and "+A" are the conjoining jamo U+1100 and U+1161, which NFC      *)
(* composes into the syllable U+AC00, written "GA".                        *)
(***************************************************************************)
LowerLetters == {"a", "b", "c", "d", "e", "f", "g", "h", "i", "j", "k", "l",
                 "o", "p", "s", "z"}
UpperLetters == {"A", "B", "I."}
OtherLetters == {"G+", "+A", "GA"}
WordChars == LowerLetters \cup UpperLetters \cup OtherLetters
SpaceChars == {" "}
PunctChars == {"!", ".", ".^"}

BoundedSeq(S, n) == UNION {[1..k -> S] : k \in 0..n}

\* re.sub(r"[^\w\s]", "", s)
StripPunct(s) == SelectSeq(s, LAMBDA c : c \in WordChars \cup SpaceChars)

\* unicodedata.normalize("NFC", s): composes a leading jamo with the vowel
\* jamo that follows it; every other character of the alphabet is unchanged.
RECURSIVE NFC(_)
NFC(s) ==
    IF Len(s) < 2 THEN s
    ELSE IF s[1] = "G+" /\ s[2] = "+A"
         THEN <<"GA">> \o NFC(SubSeq(s, 3, Len(s)))
         ELSE <<s[1]>> \o NFC(Tail(s))

\* str.strip()
RECURSIVE LStrip(_)
LStrip(s) == IF s # <<>> /\ s[1] \in SpaceChars THEN LStrip(Tail(s)) ELSE s
RECURSIVE RStrip(_)
RStrip(s) ==
    IF s # <<>> /\ s[Len(s)] \in SpaceChars
    THEN RStrip(SubSeq(s, 1, Len(s) - 1)) ELSE s
Strip(s) == RStrip(LStrip(s))

\* str.lower()
LowerChar(c) ==
    CASE c = "A" -> <<"a">>
      [] c = "B" -> <<"b">>
      [] c = "I." -> <<"i", ".^">>
      [] OTHER -> <<c>>
RECURSIVE Lower(_)
Lower(s) == IF s = <<>> THEN <<>> ELSE LowerChar(s[1]) \o Lower(Tail(s))

normalize(s) ==
    IF s = <<>> THEN <<>>
    ELSE Lower(Strip(NFC(StripPunct(s))))

\* str.split(): the maximal runs of non-space characters, in order
RECURSIVE Split(_)
Split(s) ==
    LET t == LStrip(s)
        WordEnd == IF \E k \in 1..Len(t) : t[k] \in SpaceChars
                   THEN (CHOOSE k \in 1..Len(t) :
                            /\ t[k] \in SpaceChars
                            /\ \A h \in 1..(k - 1) : t[h] \notin SpaceChars) - 1
                   ELSE Len(t)
    IN  IF t = <<>> THEN <<>>
        ELSE <<SubSeq(t, 1, WordEnd)>> \o Split(SubSeq(t, WordEnd + 1, Len(t)))

\* ' '.join(words)
RECURSIVE Join(_)
Join(ws) ==
    IF ws = <<>> THEN <<>>
    ELSE IF Len(ws) = 1 THEN ws[1]
    ELSE ws[1] \o <<" ">> \o Join(Tail(ws))

slide_window(text) ==
    LET words == Split(text)
    IN  [i \in 1..(IF Len(words) >= WINDOW_SIZE THEN Len(words) - WINDOW_SIZE + 1 ELSE 0)
            |-> Join(SubSeq(words, i, i + WINDOW_SIZE - 1))]

Range(f) == {f[i] : i \in DOMAIN f}

token_overlap(a, b) == Cardinality(Range(Split(a)) \cap Range(Split(b)))

(***************************************************************************)
(* difflib.SequenceMatcher(None, a, b).ratio() for texts shorter than the  *)
(* 200 characters at which difflib's popularity heuristic starts: the      *)
(* longest common block (earliest in a, then earliest in b), then the same *)
(* to its left and to its right; ratio = 2 * matches / (len a + len b),    *)
(* and 1.0 when both are empty.                                            *)
(***************************************************************************)
RECURSIVE CommonLen(_, _, _, _)
CommonLen(a, b, i, j) ==
    IF i > Len(a) \/ j > Len(b) THEN 0
    ELSE IF a[i] # b[j] THEN 0
    ELSE 1 + CommonLen(a, b, i + 1, j + 1)

find_longest_match(a, b) ==
    LET lens == [p \in (1..Len(a)) \X (1..Len(b)) |-> CommonLen(a, b, p[1], p[2])]
        Better(p, q) == \/ lens[p] > lens[q]
                        \/ lens[p] = lens[q] /\ p[1] < q[1]
                        \/ lens[p] = lens[q] /\ p[1] = q[1] /\ p[2] <= q[2]
        best == CHOOSE p \in DOMAIN lens : \A q \in DOMAIN lens : Better(p, q)
    IN  IF a = <<>> \/ b = <<>> THEN <<1, 1, 0>>
        ELSE <<best[1], best[2], lens[best]>>

RECURSIVE matching_size(_, _)
matching_size(a, b) ==
    LET m == find_longest_match(a, b)
    IN  IF m[3] = 0 THEN 0
        ELSE m[3]
             + matching_size(SubSeq(a, 1, m[1] - 1), SubSeq(b, 1, m[2] - 1))
             + matching_size(SubSeq(a, m[1] + m[3], Len(a)),
                             SubSeq(b, m[2] + m[3], Len(b)))

ratio(a, b) ==
    IF Len(a) + Len(b) = 0 THEN 100
    ELSE (2 * matching_size(a, b) * 100) \div (Len(a) + Len(b))

\* Memo of ratio over the texts the inputs below can produce (evaluated once).
RatioTable(As, Bs) == [a \in As |-> [b \in Bs |-> ratio(a, b)] @@ <<>>] @@ <<>>

(***************************************************************************)
(* Inputs: the texts of the canonical metadata file and of the recording   *)
(* sidecars.                                                               *)
(***************************************************************************)
Words(cs) == [i \in DOMAIN cs |-> <<cs[i]>>]
Letters12 == <<"a", "b", "c", "d", "e", "f", "g", "h", "i", "j", "k", "l">>
Reverse(s) == [i \in DOMAIN s |-> s[Len(s) + 1 - i]]

TitleExact == <<"A", "b", "!">>
TitleNear == <<"a", "b", "c">>
TitleFar == <<"a", "b", "c", "d">>
TitlePunct == <<"!">>
TitlePlaceholder == <<"e", "p", "i", "s", "o", "d", "e">>
Desc12 == Join(Words(Letters12)) \o <<".">>
Desc9 == Join(Words(SubSeq(Letters12, 1, 9)))
OverviewSame == Join(Words(Letters12))
OverviewShuffled == Join(Words(Reverse(Letters12)))
OverviewEdge == Join(Words(SubSeq(Letters12, 1, 8)) \o << <<"z", "z", "z", "z", "z">> >>)
OverviewBelow == Join(Words(SubSeq(Letters12, 1, 8)) \o << <<"z", "z", "z", "z", "z", "z">> >>)

\* the text fields of one episode of the metadata file
EpisodeTexts ==
    { [titles |-> <<TitleExact>>, overview |-> <<>>, overviews |-> <<OverviewEdge>>],
      [titles |-> <<TitleNear, <<>> >>, overview |-> <<>>, overviews |-> <<OverviewSame>>],
      [titles |-> <<TitleFar, TitlePlaceholder>>, overview |-> <<>>,
       overviews |-> <<OverviewBelow, OverviewShuffled>>],
      [titles |-> <<TitlePunct>>, overview |-> OverviewShuffled, overviews |-> <<>>] }

EpisodeKeys == {<<0, 1>>, <<1, 1>>, <<1, 2>>}

EpisodeInputs ==
    { [season_number |-> k[1], episode_number |-> k[2], titles |-> t.titles,
       overview |-> t.overview, overviews |-> t.overviews] :
      k \in EpisodeKeys, t \in EpisodeTexts }

\* the subtitle and description elements of one sidecar
XmlTexts ==
    { [subtitle |-> <<"A", "B">>, description |-> Desc12],
      [subtitle |-> <<"a", "b">>, description |-> Desc9],
      [subtitle |-> <<>>, description |-> Desc12],
      [subtitle |-> <<"z", "z">>, description |-> Desc12] }

\* The metadata file as Season_Episode_builder.fetch_metadata writes it:
\* seasons ascending and distinct, episodes of a season ascending by number
\* (the same number may occur more than once).
KeyLeq(e, f) ==
    \/ e.season_number < f.season_number
    \/ e.season_number = f.season_number /\ e.episode_number <= f.episode_number

MetaOf(eps) ==
    LET nums == {eps[i].season_number : i \in DOMAIN eps}
        RECURSIVE Seasons(_)
        Seasons(left) ==
            IF left = {} THEN <<>>
            ELSE LET n == CHOOSE x \in left : \A y \in left : x <= y
                 IN  << [season_number |-> n,
                         episodes |-> SelectSeq(eps, LAMBDA e : e.season_number = n)] >>
                     \o Seasons(left \ {n})
    IN  Seasons(nums)

MetaInputs ==
    { MetaOf(eps) : eps \in { s \in BoundedSeq(EpisodeInputs, MaxEpisodes) :
                               \A i \in 1..(Len(s) - 1) : KeyLeq(s[i], s[i + 1]) } }

\* File names are sequences of pieces: a stem, "-0" marks and an extension.
\* The i-th sidecar of the folder is r1.xml, r1-0.xml, r1-0-0.xml, ...
Marks(k) == [j \in 1..k |-> "-0"]
XmlName(i) == <<"r1">> \o Marks(i - 1) \o <<".xml">>
TsName(k) == <<"r1">> \o Marks(k) \o <<".ts">>

XmlInputs ==
    { [i \in DOMAIN s |-> [file |-> XmlName(i), subtitle |-> s[i].subtitle,
                           description |-> s[i].description]] :
      s \in BoundedSeq(XmlTexts, MaxXml) }

AllTitles == UNION {{normalize(t.titles[i]) : i \in DOMAIN t.titles} : t \in EpisodeTexts}
AllOverviews ==
    UNION {{normalize(t.overview)} \cup {normalize(t.overviews[i]) : i \in DOMAIN t.overviews} :
           t \in EpisodeTexts}
AllSubtitles == {normalize(x.subtitle) : x \in XmlTexts}
AllSnippets == UNION {Range(slide_window(normalize(x.description))) : x \in XmlTexts}

AllDescriptions == {normalize(x.description) : x \in XmlTexts}

TitleRatio == RatioTable(AllSubtitles, AllTitles)
SnippetRatio == RatioTable(AllSnippets, AllOverviews)
DescRatio == RatioTable(AllSnippets \cup AllDescriptions, AllOverviews)
\* Memos of token_overlap, slide_window and the word count of a description
OverlapTable ==
    [a \in AllDescriptions |-> [b \in AllOverviews |-> token_overlap(a, b)] @@ <<>>] @@ <<>>
WindowTable == [a \in AllDescriptions |-> slide_window(a)] @@ <<>>
WordCount == [a \in AllDescriptions |-> Len(Split(a))] @@ <<>>

(***************************************************************************)
(* State.  A run of build_episode_groups uses pc .. ts_groups; the calls   *)
(* it makes before the pass loop have the locals provider_meta and seen    *)
(* (build_match_pool) and listing and epg_groups (scan_xml_metadata).  A   *)
(* run of Season_Episode_builder.fetch_metadata uses pc, pos, providers    *)
(* and metadata.  The locals of a function that is not running are empty.  *)
(***************************************************************************)
VARIABLES
    pc,               \* position: "pass" (inside the pass loop) or "done";
                      \* "pool", "scan", "merge", "sort", "raised" in the
                      \* other functions
    match_pool,       \* the candidate pool
    pairs,            \* the recording groups, in scan order
    unmatched_pairs,  \* the groups the current pass iterates over
    temp_unmatched,   \* the groups collected for the next pass
    pass_num,         \* the pass being run, 1..4
    pos,              \* position of the inner loop in unmatched_pairs
    season_map,       \* season number -> entries appended so far
    results,          \* the returned "seasons" list
    attempts,         \* the calls of match_group_to_provider made, in order
    ts_groups,        \* basename -> the media files found for it (line 245)
    provider_meta,    \* build_match_pool: the metadata file being flattened
    seen,             \* build_match_pool: the (season, episode) pairs added
    listing,          \* scan_xml_metadata: os.listdir(ROOT_FOLDER)
    epg_groups,       \* scan_xml_metadata: the groups found so far
    providers,        \* fetch_metadata: the providers, in configured order
    metadata,         \* fetch_metadata: metadata["seasons"]
    texts,            \* normalize: the argument and the values returned so far
    paths_txt,        \* load_paths, match_episode: the lines of paths.txt
    series_name,      \* load_paths, match_episode: the series asked for
    settings,         \* load_paths: the module's globals
    processed,        \* match_episode: the content of the processed file
    request           \* match_episode: the arguments and what the call reads

pool_locals == <<provider_meta, seen>>
scan_locals == <<listing, epg_groups>>
merger_vars == <<providers, metadata>>
matcher_vars == <<pairs, unmatched_pairs, temp_unmatched, pass_num,
                  season_map, results, attempts>>
norm_vars == <<texts>>
config_vars == <<paths_txt, series_name, settings>>
manual_vars == <<processed, request>>
tool_vars == <<norm_vars, config_vars, manual_vars>>

vars == <<pc, match_pool, pairs, unmatched_pairs, temp_unmatched,
          pass_num, pos, season_map, results, attempts, ts_groups,
          provider_meta, seen, listing, epg_groups, providers, metadata,
          texts, paths_txt, series_name, settings, processed, request>>

\* normalize, load_paths and match_episode are not running
ToolsIdle ==
    /\ texts = <<>>
    /\ paths_txt = <<>> /\ series_name = "" /\ settings = <<>>
    /\ processed = <<>> /\ request = <<>>

\* scan_xml_metadata: groups keyed by (subtitle, description), in order of
\* first occurrence, each with the list of its sidecar files
\* Faulty variant: the key is the subtitle alone
SameKey_SubtitleOnly(g, subtitle, description) == g.subtitle = subtitle

\* the group of the dictionary that has the key (subtitle, description)
SameKey(g, subtitle, description) == g.subtitle = subtitle /\ g.desc = description

RECURSIVE scan_from(_, _)
scan_from(files, groups) ==
    IF files = <<>> THEN groups
    ELSE LET f == Head(files)
             subtitle == normalize(f.subtitle)
             description == normalize(f.description)
             Same(g) == SameKey(g, subtitle, description)
         IN  IF \E i \in DOMAIN groups : Same(groups[i])
             THEN scan_from(Tail(files),
                    [i \in DOMAIN groups |->
                        IF Same(groups[i])
                        THEN [groups[i] EXCEPT !.xml_list = Append(@, f.file)]
                        ELSE groups[i]])
             ELSE scan_from(Tail(files),
                    Append(groups, [subtitle |-> subtitle, desc |-> description,
                                    xml_list |-> <<f.file>>]))

scan_xml_metadata(files) == scan_from(files, <<>>)

\* "episode" in t.lower()
Contains(s, sub) ==
    \E i \in 1..(Len(s) - Len(sub) + 1) : SubSeq(s, i, i + Len(sub) - 1) = sub

CandidateOf(season_number, ep) ==
    [season |-> season_number,
     episode |-> ep.episode_number,
     titles |-> LET kept == SelectSeq(ep.titles,
                                LAMBDA t : t # <<>> /\ ~Contains(Lower(t), TitlePlaceholder))
                IN  [i \in DOMAIN kept |-> normalize(kept[i])],
     overviews |-> <<normalize(ep.overview)>>
                   \o [i \in DOMAIN ep.overviews |-> normalize(ep.overviews[i])]]

\* the (season, episode) pairs of the metadata file in file order
Flatten(m) ==
    LET RECURSIVE Go(_)
        Go(ss) == IF ss = <<>> THEN <<>>
                  ELSE [i \in DOMAIN Head(ss).episodes |->
                           <<Head(ss).season_number, Head(ss).episodes[i]>>]
                       \o Go(Tail(ss))
    IN  Go(m)

\* Faulty variant: no pair counts as seen
IsDuplicate_Never(key, done) == FALSE

\* line 123
IsDuplicate(key, done) == key \in done

build_match_pool(m) ==
    LET flat == Flatten(m)
        RECURSIVE Go(_, _, _)
        Go(i, pool, done) ==
            IF i > Len(flat) THEN pool
            ELSE LET key == <<flat[i][1], flat[i][2].episode_number>>
                 IN  IF IsDuplicate(key, done) THEN Go(i + 1, pool, done)
                     ELSE Go(i + 1, Append(pool, CandidateOf(flat[i][1], flat[i][2])),
                             done \cup {key})
    IN  Go(1, <<>>, {})

(***************************************************************************)
(* match_group_to_provider: the index in the pool (from 1) of the          *)
(* candidate returned, 0 when it returns (None, None).                     *)
(***************************************************************************)
\* Faulty variant: the loop goes on after a hit and returns the last one
FirstIndex_Last(hits) ==
    IF hits = {} THEN 0 ELSE CHOOSE i \in hits : \A h \in hits : h <= i

\* hits: the positions of the pool whose candidate the pass accepts; the loop
\* returns at the first of them
FirstIndex(hits) ==
    IF hits = {} THEN 0 ELSE CHOOSE i \in hits : \A h \in hits : i <= h

\* Faulty variant: empty titles are compared as well
TitleEqual_KeepEmpty(key_sub, m) == key_sub \in Range(m.titles)

NonEmptyTitles(m) == SelectSeq(m.titles, LAMBDA t : t # <<>>)

TitleEqual(key_sub, m) == key_sub \in Range(NonEmptyTitles(m))

\* Faulty variant: Pass 1 leaves the specials to the later passes
Pass1Hit_NoSpecials(key_sub, m) == TitleEqual(key_sub, m) /\ m.season # 0

Pass1Hit(key_sub, m) == TitleEqual(key_sub, m)

\* Faulty variant: the threshold itself is rejected
Pass2Accepts_Strict(r) == r > PASS2_THRESHOLD

Pass2Accepts(r) == r >= PASS2_THRESHOLD

Pass2Hit(key_sub, m) ==
    \/ TitleEqual(key_sub, m)
    \/ \E t \in Range(NonEmptyTitles(m)) : Pass2Accepts(TitleRatio[key_sub][t])

Pass3Accepts(r) == r >= PASS3_THRESHOLD

Pass3Attempted(key_desc) == WordCount[key_desc] >= 10

Pass3Hit(key_desc, m) ==
    \E o \in Range(m.overviews), snippet \in Range(WindowTable[key_desc]) :
        Pass3Accepts(SnippetRatio[snippet][o])

Max(S, default) == IF S = {} THEN default ELSE CHOOSE x \in S : \A y \in S : y <= x

max_subtitle_ratio(key_sub, m) ==
    Max({TitleRatio[key_sub][t] : t \in Range(m.titles)}, 0)

\* Faulty variant: the specials season gets no stricter guard
Pass4Guard_NoSpecials(season, r) == ~(r < PASS4_TITLE_GUARD)

Pass4Guard(season, r) ==
    /\ ~(r < PASS4_TITLE_GUARD)
    /\ ~(season = 0 /\ r < PASS4_SPECIALS_GUARD)

Pass4Hit(key_sub, key_desc, m) ==
    \E o \in Range(m.overviews) :
        /\ OverlapTable[key_desc][o] >= PASS4_THRESHOLD
        /\ Pass4Guard(m.season, max_subtitle_ratio(key_sub, m))

\* Faulty variant: Pass 3 compares a description shorter than the window as a whole
match_group_to_provider_ShortDesc(subtitle, desc, pool, pass) ==
    LET key_sub == normalize(subtitle)
        key_desc == normalize(desc)
        snippets == IF WordCount[key_desc] >= 10 THEN Range(WindowTable[key_desc])
                    ELSE {key_desc}
    IN  CASE pass = 1 -> FirstIndex({i \in DOMAIN pool : Pass1Hit(key_sub, pool[i])})
          [] pass = 2 -> FirstIndex({i \in DOMAIN pool : Pass2Hit(key_sub, pool[i])})
          [] pass = 3 ->
                FirstIndex({i \in DOMAIN pool :
                    \E o \in Range(pool[i].overviews), snippet \in snippets :
                        Pass3Accepts(DescRatio[snippet][o])})
          [] pass = 4 -> FirstIndex({i \in DOMAIN pool : Pass4Hit(key_sub, key_desc, pool[i])})
          [] OTHER -> 0

match_group_to_provider(subtitle, desc, pool, pass) ==
    LET key_sub == normalize(subtitle)
        key_desc == normalize(desc)
    IN  CASE pass = 1 -> FirstIndex({i \in DOMAIN pool : Pass1Hit(key_sub, pool[i])})
          [] pass = 2 -> FirstIndex({i \in DOMAIN pool : Pass2Hit(key_sub, pool[i])})
          [] pass = 3 /\ Pass3Attempted(key_desc) ->
                FirstIndex({i \in DOMAIN pool : Pass3Hit(key_desc, pool[i])})
          [] pass = 4 -> FirstIndex({i \in DOMAIN pool : Pass4Hit(key_sub, key_desc, pool[i])})
          [] OTHER -> 0

(***************************************************************************)
(* build_episode_groups                                                    *)
(***************************************************************************)
\* file.endswith(ext)
EndsWith(file, ext) == file # <<>> /\ file[Len(file)] = ext

\* re.sub(r"(-0)+(?=\.ts$)", "", s): removes the "-0" marks that stand right
\* before a final ".ts"
RECURSIVE StripMarks(_)
StripMarks(s) ==
    IF ~EndsWith(s, ".ts") THEN s
    ELSE LET front == SubSeq(s, 1, Len(s) - 1)
         IN  IF EndsWith(front, "-0")
             THEN StripMarks(SubSeq(front, 1, Len(front) - 1) \o <<".ts">>)
             ELSE s

\* the base of a media file (line 229): the regular expression is applied to
\* the name without its extension
BaseOf(file) == StripMarks(SubSeq(file, 1, Len(file) - 1))

\* line 231
Related(base, xml_basenames) ==
    \/ base \o <<".xml">> \in xml_basenames
    \/ \E k \in {1, 2} : base \o Marks(k) \o <<".xml">> \in xml_basenames

\* files: the media files of the folder in listing order, each with its size
find_related_ts_files(files, xml_basenames) ==
    LET ts == SelectSeq(files, LAMBDA f : EndsWith(f.name, ".ts")
                                           /\ Related(BaseOf(f.name), xml_basenames))
        bases == {BaseOf(ts[i].name) : i \in DOMAIN ts}
        Entry(f) == [path |-> f.name, size |-> f.size, broken |-> "-0" \in Range(f.name)]
    IN  [b \in bases |->
            LET mine == SelectSeq(ts, LAMBDA f : BaseOf(f.name) = b)
            IN  [i \in DOMAIN mine |-> Entry(mine[i])]]

\* line 244
all_xml(groups) == UNION {Range(groups[i].xml_list) : i \in DOMAIN groups}

\* xml_file.replace(".xml", "")
Basename(xml_file) == SelectSeq(xml_file, LAMBDA c : c # ".xml")

\* the placeholder of a sidecar without media file (lines 277-281)
Placeholder(basename) == [path |-> basename \o <<".ts">>, size |-> 0, broken |-> FALSE]

\* Faulty variant: a sidecar without media file contributes nothing
TsFilesOf_NoPlaceholder(groups, basename) ==
    IF basename \in DOMAIN groups THEN groups[basename] ELSE <<>>

\* lines 275-281
TsFilesOf(groups, basename) ==
    LET ts_files == IF basename \in DOMAIN groups THEN groups[basename] ELSE <<>>
    IN  IF ts_files = <<>> THEN <<Placeholder(basename)>> ELSE ts_files

\* the file references of a group (lines 273-282)
RECURSIVE FilesOf(_)
FilesOf(xml_list) ==
    IF xml_list = <<>> THEN <<>>
    ELSE TsFilesOf(ts_groups, Basename(Head(xml_list))) \o FilesOf(Tail(xml_list))

\* lines 287 and 299
FilenameOf(files) == IF files # <<>> THEN files[1].path ELSE "No .ts found"

Bucket(map, season) == IF season \in DOMAIN map THEN map[season] ELSE <<>>

AppendTo(map, season, entry) == (season :> Append(Bucket(map, season), entry)) @@ map

RemoveAt(s, i) == SubSeq(s, 1, i - 1) \o SubSeq(s, i + 1, Len(s))

\* sorted(episodes, key=episode_number): stable
RECURSIVE SortByNumber(_)
SortByNumber(es) ==
    IF es = <<>> THEN <<>>
    ELSE LET rest == SortByNumber(Tail(es))
             e == Head(es)
             before == SelectSeq(rest, LAMBDA x : x.episode_number < e.episode_number)
             after == SelectSeq(rest, LAMBDA x : ~(x.episode_number < e.episode_number))
         IN  before \o <<e>> \o after

RECURSIVE SortedSeasons(_, _)
SortedSeasons(map, left) ==
    IF left = {} THEN <<>>
    ELSE LET n == CHOOSE x \in left : \A y \in left : x <= y
         IN  << [season_number |-> n, episodes |-> SortByNumber(map[n])] >>
             \o SortedSeasons(map, left \ {n})

PairInputs == {scan_xml_metadata(xml_files) : xml_files \in XmlInputs}
PoolInputs == {build_match_pool(meta) : meta \in MetaInputs}

\* The state when the pass loop is entered (lines 240-253): the sidecars are
\* scanned, the metadata file is loaded and the pool is built from it.  The
\* folder holds no media file.
Init ==
    /\ pairs \in PairInputs
    /\ match_pool \in PoolInputs
    /\ unmatched_pairs = pairs
    /\ pc = "pass"
    /\ temp_unmatched = <<>>
    /\ pass_num = 1
    /\ pos = 1
    /\ season_map = <<>>
    /\ results = <<>>
    /\ attempts = <<>>
    /\ ts_groups = find_related_ts_files(<<>>, all_xml(pairs))
    /\ provider_meta = <<>> /\ seen = {}
    /\ listing = <<>> /\ epg_groups = <<>>
    /\ providers = <<>> /\ metadata = <<>>
    /\ ToolsIdle

\* Faulty variant: the groups are kept in reverse order
KeptForNextPass_Prepend(kept, g, index) == <<g>> \o kept

\* What the loop body keeps for the next pass (line 303)
KeptForNextPass(kept, g, index) == Append(kept, g)

\* Faulty variant: the candidate is removed in every pass
PoolAfterMatch_AlwaysPop(pool, index, pass) ==
    SubSeq(pool, 1, index - 1) \o SubSeq(pool, index + 1, Len(pool))

\* Faulty variant: the candidate is left in the pool
PoolAfterMatch_NoPop(pool, index, pass) == pool

\* What the loop body does to the pool on a match (lines 291-292)
PoolAfterMatch(pool, index, pass) ==
    IF pass \in {1, 2} THEN RemoveAt(pool, index) ELSE pool

\* Faulty variant: the number counts the seasons of the map, not the entries of
\* the bucket
UnmatchedNumber_CountSeasons(map) == Cardinality(DOMAIN map) + 1

\* The number given to an entry of the unmatched bucket (line 297)
UnmatchedNumber(map) == Len(Bucket(map, 0)) + 1

\* Faulty variant: the entry does not carry the candidate's titles
MatchedEntry_NoTitles(matched, files) ==
    [episode_number |-> matched.episode,
     titles |-> <<>>,
     filename |-> FilenameOf(files),
     files |-> files]

\* The entry appended for a matched group (lines 284-289)
MatchedEntry(matched, files) ==
    [episode_number |-> matched.episode,
     titles |-> matched.titles,
     filename |-> FilenameOf(files),
     files |-> files]

\* one iteration of the inner loop whose call returns a candidate
AttemptMatched ==
    /\ pc = "pass"
    /\ pos <= Len(unmatched_pairs)
    /\ LET g == unmatched_pairs[pos]
           index == match_group_to_provider(g.subtitle, g.desc, match_pool, pass_num)
           matched == match_pool[index]
           files == FilesOf(g.xml_list)
       IN  /\ index # 0
           /\ season_map' = AppendTo(season_map, matched.season,
                                MatchedEntry(matched, files))
           /\ match_pool' = PoolAfterMatch(match_pool, index, pass_num)
           /\ temp_unmatched' = KeptForNextPass(temp_unmatched, g, index)
           /\ attempts' = Append(attempts,
                                [pass |-> pass_num, xml_list |-> g.xml_list,
                                 index |-> index, season |-> matched.season,
                                 number |-> matched.episode,
                                 titles |-> matched.titles])
    /\ pos' = pos + 1
    /\ UNCHANGED <<pc, pairs, unmatched_pairs, pass_num, results>>
    /\ UNCHANGED <<ts_groups, pool_locals, scan_locals, merger_vars, tool_vars>>

\* one iteration of the inner loop whose call returns (None, None)
AttemptUnmatched ==
    /\ pc = "pass"
    /\ pos <= Len(unmatched_pairs)
    /\ LET g == unmatched_pairs[pos]
           index == match_group_to_provider(g.subtitle, g.desc, match_pool, pass_num)
           files == FilesOf(g.xml_list)
       IN  /\ index = 0
           /\ season_map' = AppendTo(season_map, 0,
                                [episode_number |-> UnmatchedNumber(season_map),
                                 titles |-> <<g.subtitle>>,
                                 filename |-> FilenameOf(files),
                                 files |-> files])
           /\ temp_unmatched' = KeptForNextPass(temp_unmatched, g, index)
           /\ attempts' = Append(attempts,
                                [pass |-> pass_num, xml_list |-> g.xml_list,
                                 index |-> 0, season |-> 0,
                                 number |-> UnmatchedNumber(season_map),
                                 titles |-> <<>>])
    /\ pos' = pos + 1
    /\ UNCHANGED <<pc, pairs, unmatched_pairs, pass_num, results,
                   match_pool>>
    /\ UNCHANGED <<ts_groups, pool_locals, scan_locals, merger_vars, tool_vars>>

\* end of passes 1..3 (line 304) and start of the next pass (lines 255-257)
NextPass ==
    /\ pc = "pass"
    /\ pos > Len(unmatched_pairs)
    /\ pass_num < 4
    /\ unmatched_pairs' = temp_unmatched
    /\ temp_unmatched' = <<>>
    /\ pass_num' = pass_num + 1
    /\ pos' = 1
    /\ UNCHANGED <<pc, pairs, match_pool, season_map, results, attempts>>
    /\ UNCHANGED <<ts_groups, pool_locals, scan_locals, merger_vars, tool_vars>>

\* end of pass 4 (line 304) and the sorted result (lines 307-313)
Assemble ==
    /\ pc = "pass"
    /\ pos > Len(unmatched_pairs)
    /\ pass_num = 4
    /\ unmatched_pairs' = temp_unmatched
    /\ results' = SortedSeasons(season_map, DOMAIN season_map)
    /\ pc' = "done"
    /\ UNCHANGED <<pairs, match_pool, temp_unmatched, pass_num, pos,
                   season_map, attempts>>
    /\ UNCHANGED <<ts_groups, pool_locals, scan_locals, merger_vars, tool_vars>>

Next == AttemptMatched \/ AttemptUnmatched \/ NextPass \/ Assemble

Spec == Init /\ [][Next]_vars

(***************************************************************************)
(* Runs of build_episode_groups in a folder that holds media files: each   *)
(* of r1.ts, r1-0.ts, ... is present or not.  The pool has at most one     *)
(* candidate.                                                              *)
(***************************************************************************)
\* the media files of the folder, in listing order
RECURSIVE MediaFiles(_)
MediaFiles(marks) ==
    IF marks = {} THEN <<>>
    ELSE LET k == CHOOSE x \in marks : \A y \in marks : x <= y
         IN  <<[name |-> TsName(k), size |-> 1]>> \o MediaFiles(marks \ {k})

MediaInputs == {MediaFiles(marks) : marks \in SUBSET (0..(MaxXml - 1))}

FilesPoolInputs == {pool \in PoolInputs : Len(pool) <= 1}

FilesInit ==
    /\ pairs \in PairInputs
    /\ match_pool \in FilesPoolInputs
    /\ \E media \in MediaInputs :
          ts_groups = find_related_ts_files(media, all_xml(pairs))
    /\ unmatched_pairs = pairs
    /\ pc = "pass"
    /\ temp_unmatched = <<>>
    /\ pass_num = 1
    /\ pos = 1
    /\ season_map = <<>>
    /\ results = <<>>
    /\ attempts = <<>>
    /\ provider_meta = <<>> /\ seen = {}
    /\ listing = <<>> /\ epg_groups = <<>>
    /\ providers = <<>> /\ metadata = <<>>
    /\ ToolsIdle

FilesSpec == FilesInit /\ [][Next]_vars

(***************************************************************************)
(* A run of build_episode_groups from the call of build_match_pool (line   *)
(* 242) on, with the loop of build_match_pool taken one episode at a time. *)
(* provider_meta is the metadata file as loaded at line 241; the pool is   *)
(* built in match_pool.  The run has one group.                            *)
(***************************************************************************)
PoolPairInputs == {scan_xml_metadata(xml_files) : xml_files \in {x \in XmlInputs : Len(x) = 1}}

PoolInit ==
    /\ provider_meta \in MetaInputs
    /\ pairs \in PoolPairInputs
    /\ match_pool = <<>>
    /\ seen = {}
    /\ pc = "pool"
    /\ pos = 1
    /\ unmatched_pairs = <<>> /\ temp_unmatched = <<>> /\ pass_num = 0
    /\ season_map = <<>> /\ results = <<>> /\ attempts = <<>>
    /\ ts_groups = <<>>
    /\ listing = <<>> /\ epg_groups = <<>>
    /\ providers = <<>> /\ metadata = <<>>
    /\ ToolsIdle

\* the episode the loop of build_match_pool is at, and its key (line 122)
PoolEpisode == Flatten(provider_meta)[pos]
PoolKey == <<PoolEpisode[1], PoolEpisode[2].episode_number>>

\* lines 126-136
PoolAdd ==
    /\ pc = "pool" /\ pos <= Len(Flatten(provider_meta))
    /\ ~IsDuplicate(PoolKey, seen)
    /\ seen' = seen \cup {PoolKey}
    /\ match_pool' = Append(match_pool, CandidateOf(PoolEpisode[1], PoolEpisode[2]))
    /\ pos' = pos + 1
    /\ UNCHANGED <<pc, provider_meta, matcher_vars, ts_groups, scan_locals, merger_vars,
                   tool_vars>>

\* lines 123-125
PoolSkipDuplicate ==
    /\ pc = "pool" /\ pos <= Len(Flatten(provider_meta))
    /\ IsDuplicate(PoolKey, seen)
    /\ pos' = pos + 1
    /\ UNCHANGED <<pc, match_pool, pool_locals, matcher_vars, ts_groups,
                   scan_locals, merger_vars, tool_vars>>

\* the return of build_match_pool (line 138) and lines 243-257
PoolBuilt ==
    /\ pc = "pool" /\ pos > Len(Flatten(provider_meta))
    /\ ts_groups' = find_related_ts_files(<<>>, all_xml(pairs))
    /\ unmatched_pairs' = pairs
    /\ pass_num' = 1
    /\ pos' = 1
    /\ pc' = "pass"
    /\ UNCHANGED <<match_pool, pairs, temp_unmatched, season_map, results,
                   attempts, pool_locals, scan_locals, merger_vars, tool_vars>>

PoolNext ==
    \/ PoolAdd \/ PoolSkipDuplicate \/ PoolBuilt
    \/ AttemptMatched \/ AttemptUnmatched \/ NextPass \/ Assemble

PoolSpec == PoolInit /\ [][PoolNext]_vars

(***************************************************************************)
(* scan_xml_metadata, one file of the folder at a time.  A file of the     *)
(* listing has a name, a size and, for a sidecar that parses, the texts of *)
(* its subtitle and description elements; "malformed" is a sidecar on      *)
(* which ET.parse raises.                                                  *)
(***************************************************************************)
MaxListing == 3

\* a sidecar whose texts differ from those of the first of XmlTexts and
\* normalize to the same pair
XmlSameKey == [subtitle |-> <<"a", "b">>, description |-> OverviewSame]

FileInputs(i) ==
    { [name |-> XmlName(i), size |-> 1, parses |-> TRUE,
       subtitle |-> x.subtitle, description |-> x.description] :
        x \in XmlTexts \cup {XmlSameKey} }
    \cup { [name |-> XmlName(i), size |-> 1, parses |-> FALSE,
            subtitle |-> <<>>, description |-> <<>>],
           [name |-> XmlName(i), size |-> 0, parses |-> FALSE,
            subtitle |-> <<>>, description |-> <<>>],
           [name |-> TsName(i), size |-> 1, parses |-> FALSE,
            subtitle |-> <<>>, description |-> <<>>] }

\* the listings of n files
RECURSIVE Listings(_)
Listings(n) ==
    IF n = 0 THEN {<<>>}
    ELSE {Append(s, f) : s \in Listings(n - 1), f \in FileInputs(n)}

ListingInputs == UNION {Listings(n) : n \in 0..MaxListing}

ScanInit ==
    /\ listing \in ListingInputs
    /\ epg_groups = <<>>
    /\ pc = "scan"
    /\ pos = 1
    /\ match_pool = <<>> /\ pairs = <<>> /\ unmatched_pairs = <<>>
    /\ temp_unmatched = <<>> /\ pass_num = 0 /\ season_map = <<>>
    /\ results = <<>> /\ attempts = <<>> /\ ts_groups = <<>>
    /\ provider_meta = <<>> /\ seen = {}
    /\ providers = <<>> /\ metadata = <<>>
    /\ ToolsIdle

ScanFrame ==
    UNCHANGED <<match_pool, matcher_vars, ts_groups, pool_locals, merger_vars,
                tool_vars>>

\* line 95
IsSidecar(f) == EndsWith(f.name, ".xml") /\ f.size > 0

\* lines 96-104: the sidecar parses and joins the group of its key
ScanGrouped ==
    /\ pc = "scan" /\ pos <= Len(listing)
    /\ IsSidecar(listing[pos]) /\ listing[pos].parses
    /\ epg_groups' = scan_from(<<[file |-> listing[pos].name,
                                  subtitle |-> listing[pos].subtitle,
                                  description |-> listing[pos].description]>>,
                               epg_groups)
    /\ pos' = pos + 1
    /\ UNCHANGED <<pc, listing>>
    /\ ScanFrame

\* line 95 is false: not a sidecar, or an empty one
ScanIgnored ==
    /\ pc = "scan" /\ pos <= Len(listing)
    /\ ~IsSidecar(listing[pos])
    /\ pos' = pos + 1
    /\ UNCHANGED <<pc, listing, epg_groups>>
    /\ ScanFrame

\* lines 105-106: ET.parse raises and the sidecar is logged and skipped
ScanParseFail ==
    /\ pc = "scan" /\ pos <= Len(listing)
    /\ IsSidecar(listing[pos]) /\ ~listing[pos].parses
    /\ pos' = pos + 1
    /\ UNCHANGED <<pc, listing, epg_groups>>
    /\ ScanFrame

\* line 107
ScanReturn ==
    /\ pc = "scan" /\ pos > Len(listing)
    /\ pc' = "scanned"
    /\ UNCHANGED <<pos, listing, epg_groups>>
    /\ ScanFrame

ScanNext == ScanGrouped \/ ScanIgnored \/ ScanParseFail \/ ScanReturn

ScanSpec == ScanInit /\ [][ScanNext]_vars

(***************************************************************************)
(* Season_Episode_builder.fetch_metadata: the merge of the per-source      *)
(* records into the metadata file.                                         *)
(*                                                                         *)
(* An episode number is <<n>>, or None when the entry has none.  A         *)
(* per-source record is the list of its (season key, episodes) items in    *)
(* the order of the "seasons" object; a season key is a string.            *)
(***************************************************************************)
MaxProviders == 2

None == <<>>
Num(n) == <<n>>

\* int(season_num): the key "x" is not a number and raises ValueError
IsNumber(key) == key \in {"1", "01", "2"}
int(key) == IF key = "2" THEN 2 ELSE 1

Ep(n, source, title) == [episode_number |-> n, source |-> source, title |-> title]

\* the records one source can deliver
RecordsOf(source) ==
    { << <<"1", <<Ep(Num(1), source, "t"), Ep(Num(2), source, "t")>> >> >>,
      << <<"2", <<Ep(Num(1), source, "t")>> >>, <<"01", <<Ep(Num(3), source, "t")>> >> >>,
      << <<"1", <<Ep(Num(2), source, "u")>> >> >>,
      << <<"2", <<Ep(Num(2), source, "t")>> >>, <<"x", <<Ep(Num(1), source, "t")>> >> >>,
      << <<"1", <<Ep(None, source, "t")>> >> >> }

SourceNames == {"tvmaze", "tmdb"}

\* What one provider does when asked: "data" (it delivers a record),
\* "raises" (its call or the reading of its temp file raises) or
\* "no_temp_file" (a function provider that left no temp file).
ProviderInputs ==
    UNION { { [name |-> n, outcome |-> "data", seasons |-> r] : r \in RecordsOf(n) } :
            n \in SourceNames }
    \cup { [name |-> n, outcome |-> o, seasons |-> <<>>] :
             n \in SourceNames, o \in {"raises", "no_temp_file"} }

\* lines 169-176
MergeSeason(seasons, season_num, episodes) ==
    LET same == {i \in DOMAIN seasons : seasons[i].season_number = season_num}
        existing_season == CHOOSE i \in same : \A h \in same : i <= h
    IN  IF same = {}
        THEN Append(seasons, [season_number |-> season_num, episodes |-> episodes])
        ELSE [seasons EXCEPT ![existing_season].episodes = @ \o episodes]

\* the loop of lines 167-176 over the items of one record: the seasons after
\* it, and whether it ended by an exception
RECURSIVE MergeRecord(_, _)
MergeRecord(seasons, items) ==
    IF items = <<>> THEN [seasons |-> seasons, raised |-> FALSE]
    ELSE IF ~IsNumber(Head(items)[1]) THEN [seasons |-> seasons, raised |-> TRUE]
    ELSE MergeRecord(MergeSeason(seasons, int(Head(items)[1]), Head(items)[2]),
                     Tail(items))

\* list.sort(key=episode_number): the comparison of None with a number or
\* with None raises TypeError; a list of one entry is not compared at all
SortRaisesOn(episodes) ==
    Len(episodes) >= 2 /\ \E i \in DOMAIN episodes : episodes[i].episode_number = None

\* stable, for numbers
RECURSIVE SortEpisodes(_)
SortEpisodes(es) ==
    IF Len(es) < 2 THEN es
    ELSE LET rest == SortEpisodes(Tail(es))
             e == Head(es)
             Less(x) == x.episode_number[1] < e.episode_number[1]
         IN  SelectSeq(rest, Less) \o <<e>> \o SelectSeq(rest, LAMBDA x : ~Less(x))

RECURSIVE SortSeasons(_)
SortSeasons(ss) ==
    IF ss = <<>> THEN <<>>
    ELSE LET rest == SortSeasons(Tail(ss))
             Less(x) == x.season_number < Head(ss).season_number
         IN  SelectSeq(rest, Less) \o <<Head(ss)>> \o SelectSeq(rest, LAMBDA x : ~Less(x))

\* lines 184-186
SortedMetadata(seasons) ==
    LET ss == SortSeasons(seasons)
    IN  [i \in DOMAIN ss |-> [ss[i] EXCEPT !.episodes = SortEpisodes(@)]]

MergeInit ==
    /\ providers \in BoundedSeq(ProviderInputs, MaxProviders)
    /\ metadata = <<>>
    /\ pc = "merge"
    /\ pos = 1
    /\ match_pool = <<>> /\ pairs = <<>> /\ unmatched_pairs = <<>>
    /\ temp_unmatched = <<>> /\ pass_num = 0 /\ season_map = <<>>
    /\ results = <<>> /\ attempts = <<>> /\ ts_groups = <<>>
    /\ provider_meta = <<>> /\ seen = {}
    /\ listing = <<>> /\ epg_groups = <<>>
    /\ ToolsIdle

MergerFrame ==
    UNCHANGED <<match_pool, matcher_vars, ts_groups, pool_locals, scan_locals,
                tool_vars>>

\* one iteration of the provider loop that merges the whole record
ProviderMerged ==
    /\ pc = "merge" /\ pos <= Len(providers)
    /\ providers[pos].outcome = "data"
    /\ LET after == MergeRecord(metadata, providers[pos].seasons)
       IN  /\ ~after.raised
           /\ metadata' = after.seasons
    /\ pos' = pos + 1
    /\ UNCHANGED <<pc, providers>>
    /\ MergerFrame

\* one iteration that ends before the merge: the call or the reading of the
\* temp file raises (lines 154-161, caught at line 180), or there is no temp
\* file (lines 162-164)
ProviderSkipped ==
    /\ pc = "merge" /\ pos <= Len(providers)
    /\ providers[pos].outcome \in {"raises", "no_temp_file"}
    /\ pos' = pos + 1
    /\ UNCHANGED <<pc, providers, metadata>>
    /\ MergerFrame

\* one iteration whose merge loop raises at a season key (line 168, caught at
\* line 180): the seasons merged before it stay
ProviderAborted ==
    /\ pc = "merge" /\ pos <= Len(providers)
    /\ providers[pos].outcome = "data"
    /\ LET after == MergeRecord(metadata, providers[pos].seasons)
       IN  /\ after.raised
           /\ metadata' = after.seasons
    /\ pos' = pos + 1
    /\ UNCHANGED <<pc, providers>>
    /\ MergerFrame

\* lines 184-188
SortAndReturn ==
    /\ pc = "merge" /\ pos > Len(providers)
    /\ \A i \in DOMAIN metadata : ~SortRaisesOn(metadata[i].episodes)
    /\ metadata' = SortedMetadata(metadata)
    /\ pc' = "returned"
    /\ UNCHANGED <<pos, providers>>
    /\ MergerFrame

\* line 186 raises TypeError, which nothing catches: no record is returned
SortRaises ==
    /\ pc = "merge" /\ pos > Len(providers)
    /\ \E i \in DOMAIN metadata : SortRaisesOn(metadata[i].episodes)
    /\ pc' = "raised"
    /\ UNCHANGED <<pos, providers, metadata>>
    /\ MergerFrame

MergeNext ==
    ProviderMerged \/ ProviderSkipped \/ ProviderAborted \/ SortAndReturn \/ SortRaises

MergeSpec == MergeInit /\ [][MergeNext]_vars

\* fetch_metadata as a function of the providers: the record returned, or
\* "raised"
RECURSIVE MergeAll(_, _)
MergeAll(seasons, ps) ==
    IF ps = <<>> THEN seasons
    ELSE MergeAll(IF Head(ps).outcome = "data"
                  THEN MergeRecord(seasons, Head(ps).seasons).seasons
                  ELSE seasons,
                  Tail(ps))

fetch_metadata(ps) ==
    LET merged == MergeAll(<<>>, ps)
    IN  IF \E i \in DOMAIN merged : SortRaisesOn(merged[i].episodes)
        THEN "raised"
        ELSE SortedMetadata(merged)

(***************************************************************************)
(* Vocabulary of the properties.                                           *)
(***************************************************************************)
Last(s) == s[Len(s)]
Bound(a) == a.index # 0
Attempting == pc = "pass" /\ pos <= Len(unmatched_pairs)
BoundEarly(a) == Bound(a) /\ a.pass \in {1, 2}

\* the attempts made for the group with sidecar list xs, as positions of attempts
AttemptsOf(xs) == {j \in DOMAIN attempts : attempts[j].xml_list = xs}

\* the entries of the returned structure, as <<position of the season, position
\* of the entry in the season>>, and those that carry the files of a group
ResultEntries == {p \in (DOMAIN results) \X (1..(MaxXml + 1) * 4) :
                    p[2] \in DOMAIN results[p[1]].episodes}
EntryAt(p) == results[p[1]].episodes[p[2]]
EntriesOf(g) == {p \in ResultEntries : EntryAt(p).files = FilesOf(g.xml_list)}

(***************************************************************************)
(* C1: build_episode_groups emits exactly one result entry per recording   *)
(* group: the binding of the first pass that binds it, or one entry in the *)
(* season-0 bucket when no pass binds it.                                  *)
(***************************************************************************)
C1_OneEntryPerGroup ==
    pc = "done" =>
        \A i \in DOMAIN pairs :
            LET g == pairs[i]
                bound == {j \in AttemptsOf(g.xml_list) : Bound(attempts[j])}
                first == CHOOSE j \in bound : \A h \in bound : j <= h
            IN  /\ Cardinality(EntriesOf(g)) = 1
                /\ \A p \in EntriesOf(g) :
                      IF bound = {}
                      THEN results[p[1]].season_number = 0
                      ELSE /\ results[p[1]].season_number = attempts[first].season
                           /\ EntryAt(p).episode_number = attempts[first].number

(***************************************************************************)
(* C2: once a group has been bound in pass k, match_group_to_provider is   *)
(* not invoked for that group in any pass after k.                         *)
(***************************************************************************)
C2_NoAttemptAfterBinding ==
    \A i, j \in DOMAIN attempts :
        (/\ i < j
         /\ Bound(attempts[i])
         /\ attempts[j].xml_list = attempts[i].xml_list)
        => ~(attempts[j].pass > attempts[i].pass)

(***************************************************************************)
(* C3: pool depletion.  Once a candidate (season, episode) has been bound  *)
(* in Pass 1 or Pass 2, no later attempt of Pass 1 or Pass 2, for any      *)
(* group, binds to the same (season, episode).                             *)
(***************************************************************************)
C3_PoolDepletion ==
    \A i, j \in DOMAIN attempts :
        (i < j /\ BoundEarly(attempts[i]) /\ BoundEarly(attempts[j]))
        => <<attempts[i].season, attempts[i].number>>
           # <<attempts[j].season, attempts[j].number>>

\* Two groups with the same subtitle were attempted in Pass 1; the first took
\* the only candidate with that title and the second found none.
C3_Witness ==
    \E i, j \in DOMAIN attempts :
        /\ i < j
        /\ attempts[i].pass = 1 /\ attempts[j].pass = 1
        /\ Bound(attempts[i]) /\ ~Bound(attempts[j])
        /\ \E g, h \in Range(pairs) :
              /\ g.xml_list = attempts[i].xml_list
              /\ h.xml_list = attempts[j].xml_list
              /\ g.subtitle = h.subtitle

(***************************************************************************)
(* The acceptance conditions as the properties state them, over the        *)
(* candidate's "titles" and "overviews" fields.                            *)
(***************************************************************************)
Min(S) == CHOOSE x \in S : \A y \in S : x <= y
Without(pool, i) == [k \in 1..(Len(pool) - 1) |-> IF k < i THEN pool[k] ELSE pool[k + 1]]
KeyOf(m) == <<m.season, m.episode>>
Current == unmatched_pairs[pos]
TitleRatios(key_sub, m) == {TitleRatio[key_sub][m.titles[k]] : k \in DOMAIN m.titles}
SnippetRatios(key_desc, m) ==
    {SnippetRatio[sn][m.overviews[k]] :
        sn \in Range(WindowTable[key_desc]), k \in DOMAIN m.overviews}

\* the candidates whose non-empty titles include the subtitle
ExactCandidates(key_sub, pool) ==
    {i \in DOMAIN pool : \E k \in DOMAIN pool[i].titles :
        pool[i].titles[k] # <<>> /\ pool[i].titles[k] = key_sub}

(***************************************************************************)
(* C4: in Pass 1 a group is bound if and only if its normalized subtitle   *)
(* equals a non-empty normalized title of a candidate in the pool; the     *)
(* bound candidate is the first such candidate in pool order and is        *)
(* removed from the pool in the same step; otherwise the group is left     *)
(* unbound and the pool is unchanged.                                      *)
(***************************************************************************)
C4_Pass1Exact ==
    [][(Attempting /\ pass_num = 1) =>
        LET g == Current
            E == ExactCandidates(normalize(g.subtitle), match_pool)
            a == Last(attempts')
        IN  /\ a.pass = 1 /\ a.xml_list = g.xml_list
            /\ Bound(a) <=> E # {}
            /\ E # {} => /\ a.index = Min(E)
                         /\ <<a.season, a.number>> = KeyOf(match_pool[Min(E)])
                         /\ match_pool' = Without(match_pool, Min(E))
            /\ E = {} => match_pool' = match_pool
      ]_vars

\* The first attempt of Pass 1 bound the first candidate of the pool while a
\* later candidate with the same title stayed in the pool.
C4_Witness ==
    /\ Len(attempts) = 1
    /\ attempts[1].pass = 1 /\ attempts[1].index = 1
    /\ \E g \in Range(pairs) :
          /\ g.xml_list = attempts[1].xml_list
          /\ ExactCandidates(g.subtitle, match_pool) # {}

(***************************************************************************)
(* C5: in Pass 2 a candidate of the pool is accepted for a group when the  *)
(* group's normalized subtitle equals one of the candidate's titles or the *)
(* similarity ratio between the subtitle and one of the candidate's titles *)
(* is at least the Pass-2 threshold; the group is then bound to an         *)
(* accepted candidate, which is removed from the pool; with no acceptable  *)
(* candidate the group is not bound.                                       *)
(***************************************************************************)
C5_Acceptable(key_sub, m) ==
    \/ key_sub \in Range(m.titles)
    \/ \E r \in TitleRatios(key_sub, m) : r >= PASS2_THRESHOLD

C5_Pass2Accepts ==
    [][(Attempting /\ pass_num = 2) =>
        LET g == Current
            A == {i \in DOMAIN match_pool : C5_Acceptable(normalize(g.subtitle), match_pool[i])}
            a == Last(attempts')
        IN  /\ Bound(a) <=> A # {}
            /\ Bound(a) => a.index \in A /\ match_pool' = Without(match_pool, a.index)
            /\ ~Bound(a) => match_pool' = match_pool
      ]_vars

(***************************************************************************)
(* C6: threshold boundary.  In Pass 2 and in Pass 3 a similarity ratio     *)
(* equal to the threshold is accepted (the group is bound) and when every  *)
(* ratio is below the threshold (and, in Pass 2, no title equals the       *)
(* subtitle) the group is not bound.                                       *)
(***************************************************************************)
C6_ThresholdBoundary ==
    [][(Attempting /\ pass_num \in {2, 3}) =>
        LET g == Current
            key_sub == normalize(g.subtitle)
            key_desc == normalize(g.desc)
            a == Last(attempts')
            ratios == IF pass_num = 2
                      THEN UNION {TitleRatios(key_sub, match_pool[i]) : i \in DOMAIN match_pool}
                      ELSE UNION {SnippetRatios(key_desc, match_pool[i]) : i \in DOMAIN match_pool}
            threshold == IF pass_num = 2 THEN PASS2_THRESHOLD ELSE PASS3_THRESHOLD
            exact == pass_num = 2 /\ ExactCandidates(key_sub, match_pool) # {}
        IN  /\ threshold \in ratios => Bound(a)
            /\ ((\A r \in ratios : r < threshold) /\ ~exact) => ~Bound(a)
      ]_vars

\* One run bound a group in Pass 2 and a group in Pass 3 with the best ratio
\* exactly at the threshold.
C6_Witness ==
    /\ \E j \in DOMAIN attempts :
          /\ attempts[j].pass = 2 /\ Bound(attempts[j])
          /\ \E g \in Range(pairs) :
                /\ g.xml_list = attempts[j].xml_list
                /\ Max({TitleRatio[g.subtitle][attempts[j].titles[k]] :
                           k \in DOMAIN attempts[j].titles}, 0) = PASS2_THRESHOLD
    /\ \E j \in DOMAIN attempts :
          /\ attempts[j].pass = 3 /\ Bound(attempts[j])
          /\ \E g \in Range(pairs), m \in Range(match_pool) :
                /\ g.xml_list = attempts[j].xml_list
                /\ KeyOf(m) = <<attempts[j].season, attempts[j].number>>
                /\ Max(SnippetRatios(g.desc, m), 0) = PASS3_THRESHOLD

(***************************************************************************)
(* C7: Pass 3 never binds a group whose normalized description has fewer   *)
(* than 10 words, whatever the overviews are; such a group is attempted    *)
(* in Pass 4.                                                              *)
(***************************************************************************)
ShortGroups == {g \in Range(pairs) : WordCount[normalize(g.desc)] < 10}

C7_ShortDescriptionSkipsPass3 ==
    \A g \in ShortGroups :
        /\ \A j \in AttemptsOf(g.xml_list) : attempts[j].pass = 3 => ~Bound(attempts[j])
        /\ pc = "done" => \E j \in AttemptsOf(g.xml_list) : attempts[j].pass = 4

\* A group with a 9-word description went unbound through Pass 3 and reached
\* Pass 4 although the pool held an overview at least as similar to the
\* description as the threshold asks.
C7_Witness ==
    \E g \in ShortGroups :
        /\ \E j \in AttemptsOf(g.xml_list) : attempts[j].pass = 3 /\ ~Bound(attempts[j])
        /\ \E j \in AttemptsOf(g.xml_list) : attempts[j].pass = 4
        /\ \E m \in Range(match_pool) : \E k \in DOMAIN m.overviews :
              DescRatio[g.desc][m.overviews[k]] >= PASS3_THRESHOLD

(***************************************************************************)
(* C8: the pool changes only by the removal of one whole candidate in      *)
(* Pass 1 or Pass 2; Passes 3 and 4 leave its contents and order           *)
(* unchanged; nothing is inserted and no field of a candidate is edited.   *)
(***************************************************************************)
C8_PoolOnlyShrinksInEarlyPasses ==
    [][/\ \/ match_pool' = match_pool
          \/ /\ pass_num \in {1, 2}
             /\ \E i \in DOMAIN match_pool : match_pool' = Without(match_pool, i)
       /\ pass_num \in {3, 4} => match_pool' = match_pool
      ]_vars

\* Two different groups were bound to the same candidate in Pass 3 or 4, and
\* the candidate is still in the pool.
C8_Witness ==
    \E i, j \in DOMAIN attempts :
        /\ i < j
        /\ attempts[i].pass \in {3, 4} /\ attempts[j].pass \in {3, 4}
        /\ Bound(attempts[i]) /\ Bound(attempts[j])
        /\ attempts[i].xml_list # attempts[j].xml_list
        /\ <<attempts[i].season, attempts[i].number>>
           = <<attempts[j].season, attempts[j].number>>
        /\ \E m \in Range(match_pool) : KeyOf(m) = <<attempts[i].season, attempts[i].number>>

(***************************************************************************)
(* C9: Pass 4 binds a group to a candidate only if (a) the number of       *)
(* distinct words shared by the description and one of the candidate's     *)
(* overviews is at least the Pass-4 threshold and (b) the greatest         *)
(* similarity between the subtitle and the candidate's titles is at least  *)
(* 0.60, and at least 0.90 when the candidate's season is 0.               *)
(***************************************************************************)
C9_Pass4Guards ==
    [][(Attempting /\ pass_num = 4 /\ Bound(Last(attempts'))) =>
        LET g == Current
            m == match_pool[Last(attempts').index]
            best == Max(TitleRatios(normalize(g.subtitle), m), 0)
        IN  /\ \E k \in DOMAIN m.overviews :
                  OverlapTable[normalize(g.desc)][m.overviews[k]] >= PASS4_THRESHOLD
            /\ best >= PASS4_TITLE_GUARD
            /\ m.season = 0 => best >= PASS4_SPECIALS_GUARD
      ]_vars

\* Pass 4 bound one group to a specials candidate and another group to a
\* candidate of a regular season whose best title similarity is below 0.90.
C9_Witness ==
    /\ \E j \in DOMAIN attempts :
          attempts[j].pass = 4 /\ Bound(attempts[j]) /\ attempts[j].season = 0
    /\ \E j \in DOMAIN attempts :
          /\ attempts[j].pass = 4 /\ Bound(attempts[j]) /\ attempts[j].season # 0
          /\ \E g \in Range(pairs) :
                /\ g.xml_list = attempts[j].xml_list
                /\ Max({TitleRatio[g.subtitle][attempts[j].titles[k]] :
                           k \in DOMAIN attempts[j].titles}, 0) < PASS4_SPECIALS_GUARD

(***************************************************************************)
(* C10: an unmatched entry gets the episode number (count of previously    *)
(* recorded unmatched entries + 1), whatever real season-0 episodes have   *)
(* been matched.                                                           *)
(***************************************************************************)
C10_UnmatchedNumber ==
    \A j \in DOMAIN attempts :
        ~Bound(attempts[j]) =>
            attempts[j].number = Cardinality({i \in 1..(j - 1) : ~Bound(attempts[i])}) + 1

(***************************************************************************)
(* C11: the synthetic episode numbers given to unmatched entries are       *)
(* strictly increasing in the order in which the unmatched entries are     *)
(* recorded during the run.                                                *)
(***************************************************************************)
C11_NumbersStrictlyIncrease ==
    \A i, j \in DOMAIN attempts :
        (i < j /\ ~Bound(attempts[i]) /\ ~Bound(attempts[j]))
        => attempts[i].number < attempts[j].number

\* Two unmatched entries were recorded one after the other with a matched
\* special between them, so that their numbers are not consecutive.
C11_Witness ==
    \E i, j \in DOMAIN attempts :
        /\ i < j
        /\ ~Bound(attempts[i]) /\ ~Bound(attempts[j])
        /\ \A k \in (i + 1)..(j - 1) : Bound(attempts[k])
        /\ \E k \in (i + 1)..(j - 1) : attempts[k].season = 0
        /\ attempts[j].number > attempts[i].number + 1

(***************************************************************************)
(* Vocabulary of the properties of fetch_metadata.                         *)
(***************************************************************************)
\* the (season, episode number) pairs of a per-source record and of the
\* merged record, and their episodes as (season, entry) pairs
RecordKeys(p) ==
    UNION {{<<int(p.seasons[i][1]), p.seasons[i][2][k].episode_number>> :
               k \in DOMAIN p.seasons[i][2]} : i \in DOMAIN p.seasons}
RecordEpisodes(p) ==
    UNION {{<<int(p.seasons[i][1]), p.seasons[i][2][k]>> :
               k \in DOMAIN p.seasons[i][2]} : i \in DOMAIN p.seasons}
MergedEpisodes ==
    UNION {{<<metadata[i].season_number, metadata[i].episodes[k]>> :
               k \in DOMAIN metadata[i].episodes} : i \in DOMAIN metadata}
WellFormed(p) ==
    p.outcome = "data" /\ \A i \in DOMAIN p.seasons : IsNumber(p.seasons[i][1])
Finished == pc \in {"returned", "raised"}

\* a missing episode number counts as 0
NumberOrZero(e) == IF e.episode_number = None THEN 0 ELSE e.episode_number[1]
SeasonsAscend ==
    \A i, j \in DOMAIN metadata :
        i < j => metadata[i].season_number < metadata[j].season_number
EpisodesAscend ==
    \A i \in DOMAIN metadata : \A k, h \in DOMAIN metadata[i].episodes :
        k < h => NumberOrZero(metadata[i].episodes[k]) <= NumberOrZero(metadata[i].episodes[h])

(***************************************************************************)
(* C12: in every record fetch_metadata returns, the (season, episode)      *)
(* pairs are unique and the episodes of a season are strictly ascending by *)
(* episode number; two sources that both supply the same pair yield one    *)
(* episode, not two.                                                       *)
(***************************************************************************)
C12_UniqueAndStrictlyAscending ==
    pc = "returned" =>
        /\ SeasonsAscend
        /\ \A i \in DOMAIN metadata : \A k, h \in DOMAIN metadata[i].episodes :
              k < h => NumberOrZero(metadata[i].episodes[k])
                       < NumberOrZero(metadata[i].episodes[h])

(***************************************************************************)
(* C13: merging two per-source records that have no (season, episode)     *)
(* pair in common yields a record whose set of episodes is exactly the     *)
(* union of the two, seasons ascending and episodes ascending within each  *)
(* season.                                                                 *)
(***************************************************************************)
DisjointPair ==
    /\ Len(providers) = 2
    /\ WellFormed(providers[1]) /\ WellFormed(providers[2])
    /\ RecordKeys(providers[1]) \cap RecordKeys(providers[2]) = {}

C13_DisjointMergeIsUnion ==
    (DisjointPair /\ Finished) =>
        /\ pc = "returned"
        /\ MergedEpisodes = RecordEpisodes(providers[1]) \cup RecordEpisodes(providers[2])
        /\ SeasonsAscend
        /\ EpisodesAscend

(***************************************************************************)
(* C14: merging is idempotent per source.  An entry a source contributes   *)
(* for a (season, episode) it already contributed replaces that source's   *)
(* title in the existing episode and adds no second episode; merging the   *)
(* same source record twice gives the record that merging it once gives.   *)
(***************************************************************************)
C14_IdempotentPerSource ==
    pc = "returned" =>
        /\ \A x, y \in MergedEpisodes :
              (/\ x[1] = y[1]
               /\ x[2].episode_number = y[2].episode_number
               /\ x[2].source = y[2].source) => x = y
        /\ (Len(providers) = 2 /\ providers[1] = providers[2])
              => metadata = fetch_metadata(<<providers[1]>>)

(***************************************************************************)
(* C15: a source that fails at any point of its processing is skipped: the *)
(* error does not reach the caller, none of its episodes is in the record  *)
(* and every other source is merged.                                       *)
(***************************************************************************)
Failed(p) == ~WellFormed(p)

C15_FailedSourceSkipped ==
    pc = "returned" =>
        metadata = fetch_metadata(SelectSeq(providers, LAMBDA p : ~Failed(p)))

(***************************************************************************)
(* C16: with an entry whose episode number is missing, fetch_metadata      *)
(* still completes; the sort counts the missing number as 0, so that the   *)
(* entry comes first in its season, and the seasons are ascending.         *)
(***************************************************************************)
C16_MissingNumberSortsFirst ==
    /\ pc # "raised"
    /\ pc = "returned" => SeasonsAscend /\ EpisodesAscend

(***************************************************************************)
(* C17: no two candidates of the pool share a (season, episode) pair, in   *)
(* every state of the run; of the episodes of the metadata file that have  *)
(* the same pair, build_match_pool keeps the first and drops every later   *)
(* one.                                                                    *)
(***************************************************************************)
\* the candidates of the first occurrences among the first n episodes
FirstOccurrences(flat, n) ==
    LET EpKey(i) == <<flat[i][1], flat[i][2].episode_number>>
        first == {i \in 1..n : \A j \in 1..(i - 1) : EpKey(j) # EpKey(i)}
        RECURSIVE InOrder(_)
        InOrder(left) ==
            IF left = {} THEN <<>>
            ELSE LET i == CHOOSE x \in left : \A y \in left : x <= y
                 IN  <<CandidateOf(flat[i][1], flat[i][2])>> \o InOrder(left \ {i})
    IN  InOrder(first)

C17_PoolKeysUnique ==
    /\ \A i, j \in DOMAIN match_pool :
          i # j => KeyOf(match_pool[i]) # KeyOf(match_pool[j])
    /\ pc = "pool" =>
          match_pool = FirstOccurrences(Flatten(provider_meta), pos - 1)
    /\ (pc = "pass" /\ attempts = <<>>) =>
          match_pool = FirstOccurrences(Flatten(provider_meta),
                                        Len(Flatten(provider_meta)))

\* The metadata file held the same pair twice with different titles; the pool
\* was built with the candidate of the first and without the second, and a
\* group has been attempted against it.
C17_Witness ==
    /\ pc = "pass" /\ Len(attempts) = 1
    /\ LET flat == Flatten(provider_meta)
       IN  \E i, j \in DOMAIN flat :
              /\ i < j
              /\ flat[i][1] = flat[j][1]
              /\ flat[i][2].episode_number = flat[j][2].episode_number
              /\ flat[i][2].titles # flat[j][2].titles
              /\ \A h \in 1..(i - 1) : flat[h][2].episode_number # flat[i][2].episode_number
                                       \/ flat[h][1] # flat[i][1]
              /\ seen = {<<flat[i][1], flat[i][2].episode_number>>}
              /\ ~Bound(attempts[1])
              /\ match_pool = <<CandidateOf(flat[i][1], flat[i][2])>>

(***************************************************************************)
(* C18: every title held by a candidate of the pool is a non-empty         *)
(* normalized string; a title of the metadata file that is empty, or that  *)
(* normalization makes empty, is not in the candidate's titles.            *)
(***************************************************************************)
C18_TitlesNonEmpty ==
    \A i \in DOMAIN match_pool : \A k \in DOMAIN match_pool[i].titles :
        match_pool[i].titles[k] # <<>>

(***************************************************************************)
(* C19: scan_xml_metadata partitions the readable sidecars by their        *)
(* (normalized subtitle, normalized description) pair: every readable      *)
(* sidecar is in exactly one group, two sidecars are in the same group if  *)
(* and only if their pairs are equal, and no two groups have the same      *)
(* pair.                                                                   *)
(***************************************************************************)
\* the positions of the listing scanned so far that hold a readable sidecar
ScannedReadable ==
    {i \in 1..(pos - 1) : IsSidecar(listing[i]) /\ listing[i].parses}
PairOf(f) == <<normalize(f.subtitle), normalize(f.description)>>
\* the groups, and the places in them, that hold the file name
PlacesOf(name) ==
    {p \in (DOMAIN epg_groups) \X (1..MaxListing) :
        /\ p[2] \in DOMAIN epg_groups[p[1]].xml_list
        /\ epg_groups[p[1]].xml_list[p[2]] = name}
GroupOfFile(i) == CHOOSE p \in PlacesOf(listing[i].name) : TRUE

C19_ScanPartitions ==
    /\ \A i \in ScannedReadable : Cardinality(PlacesOf(listing[i].name)) = 1
    /\ \A i \in (1..(pos - 1)) \ ScannedReadable : PlacesOf(listing[i].name) = {}
    /\ \A i, j \in ScannedReadable :
          GroupOfFile(i)[1] = GroupOfFile(j)[1] <=> PairOf(listing[i]) = PairOf(listing[j])
    /\ \A g, h \in DOMAIN epg_groups :
          g # h => <<epg_groups[g].subtitle, epg_groups[g].desc>>
                   # <<epg_groups[h].subtitle, epg_groups[h].desc>>
    /\ \A g \in DOMAIN epg_groups :
          /\ epg_groups[g].xml_list # <<>>
          /\ \A k \in DOMAIN epg_groups[g].xml_list :
                \E i \in ScannedReadable :
                    /\ listing[i].name = epg_groups[g].xml_list[k]
                    /\ PairOf(listing[i]) = <<epg_groups[g].subtitle, epg_groups[g].desc>>

\* The scan has returned two groups: one holds two sidecars whose texts differ
\* and normalize to the same pair, the other a sidecar with the same subtitle
\* and another description.
C19_Witness ==
    /\ pc = "scanned"
    /\ Len(epg_groups) = 2
    /\ \E i, j, k \in ScannedReadable :
          /\ i # j
          /\ listing[i].subtitle # listing[j].subtitle
          /\ GroupOfFile(i)[1] = GroupOfFile(j)[1]
          /\ GroupOfFile(k)[1] # GroupOfFile(i)[1]
          /\ normalize(listing[k].subtitle) = normalize(listing[i].subtitle)

(***************************************************************************)
(* C20: every result entry of build_episode_groups carries at least one    *)
(* file reference; for each sidecar of the group that has no media file, a *)
(* zero-size, non-broken placeholder path is in the entry's files.         *)
(***************************************************************************)
HasMedia(xml_file) == Basename(xml_file) \in DOMAIN ts_groups
AllEntries(map) == UNION {Range(map[n]) : n \in DOMAIN map}

C20_FilesNeverEmpty ==
    [][/\ Attempting =>
            LET g == Current
                a == Last(attempts')
                entry == Last(season_map'[a.season])
            IN  /\ entry.files # <<>>
                /\ entry.filename = entry.files[1].path
                /\ \A x \in Range(g.xml_list) :
                      IF HasMedia(x)
                      THEN Range(ts_groups[Basename(x)]) \subseteq Range(entry.files)
                      ELSE [path |-> Basename(x) \o <<".ts">>, size |-> 0,
                            broken |-> FALSE] \in Range(entry.files)
       /\ \A i \in DOMAIN results' : \A k \in DOMAIN results'[i].episodes :
             /\ results'[i].episodes[k].files # <<>>
             /\ results'[i].episodes[k] \in AllEntries(season_map)
      ]_vars

\* The result holds an entry of a group with two sidecars, one with its media
\* file and one without: its files are a real file and a placeholder.
C20_Witness ==
    /\ pc = "done"
    /\ \E i \in DOMAIN results : \E k \in DOMAIN results[i].episodes :
          LET files == results[i].episodes[k].files
          IN  /\ \E f \in Range(files) : f.size > 0
              /\ \E f \in Range(files) : f.size = 0 /\ ~f.broken
    /\ \E g \in Range(pairs) : \E x, y \in Range(g.xml_list) : HasMedia(x) /\ ~HasMedia(y)


(***************************************************************************)
(* Vocabulary of the properties of the pass loop as a whole.               *)
(***************************************************************************)
\* how many times the entry e occurs in the list es
Count(es, e) == Cardinality({k \in DOMAIN es : es[k] = e})

\* the lists es and fs hold the same entries, each as many times
SameEntries(es, fs) ==
    /\ Len(es) = Len(fs)
    /\ \A k \in DOMAIN es : Count(es, es[k]) = Count(fs, es[k])

\* the bucket of the returned structure for a season
ResultBucket(season) ==
    IF \E k \in DOMAIN results : results[k].season_number = season
    THEN results[CHOOSE k \in DOMAIN results : results[k].season_number = season].episodes
    ELSE <<>>

(***************************************************************************)
(* C21: every matched result entry retains its canonical identity.  When   *)
(* a group is bound, the bound candidate is a member of the pool, the      *)
(* entry is appended to the bucket of the candidate's season, and its      *)
(* episode_number and titles are the candidate's episode and titles; the   *)
(* returned structure holds, season by season, the entries appended.       *)
(***************************************************************************)
C21_MatchedEntryIdentity ==
    [][/\ (Attempting /\ Bound(Last(attempts'))) =>
            LET a == Last(attempts')
            IN  /\ a.index \in DOMAIN match_pool
                /\ LET m == match_pool[a.index]
                       e == Last(Bucket(season_map', m.season))
                   IN  /\ season_map' = AppendTo(season_map, m.season, e)
                       /\ e.episode_number = m.episode
                       /\ e.titles = m.titles
                       /\ e.files = FilesOf(Current.xml_list)
       /\ pc' = "done" =>
            /\ {results'[k].season_number : k \in DOMAIN results'} = DOMAIN season_map
            /\ \A k \in DOMAIN results' :
                  SameEntries(results'[k].episodes, season_map[results'[k].season_number])
      ]_vars

\* The run is over; a group was bound in Pass 1 to a candidate of season 1,
\* which left the pool, and the bucket of season 1 of the returned structure
\* holds an entry with the candidate's episode number and titles.
C21_Witness ==
    /\ pc = "done"
    /\ \E j \in DOMAIN attempts :
          /\ attempts[j].pass = 1 /\ Bound(attempts[j]) /\ attempts[j].season = 1
          /\ \A m \in Range(match_pool) :
                KeyOf(m) # <<attempts[j].season, attempts[j].number>>
          /\ \E k \in DOMAIN ResultBucket(1) :
                /\ ResultBucket(1)[k].episode_number = attempts[j].number
                /\ ResultBucket(1)[k].titles = attempts[j].titles

(***************************************************************************)
(* C22: passes run strictly in order 1, 2, 3, 4: every Pass k attempt of   *)
(* every group happens before any Pass k+1 attempt of any group; within a  *)
(* pass the groups are attempted in scan order; each attempt scans the     *)
(* pool in its current insertion order (it returns at the first position   *)
(* it accepts, and the pool keeps the order of its candidates).            *)
(***************************************************************************)
\* the position of a group in scan order
ScanPosition(xs) == CHOOSE i \in DOMAIN pairs : pairs[i].xml_list = xs

\* pool is sub with some candidates taken out, the others in the same order
RECURSIVE IsSubsequence(_, _)
IsSubsequence(sub, pool) ==
    IF sub = <<>> THEN TRUE
    ELSE IF pool = <<>> THEN FALSE
    ELSE IF Head(sub) = Head(pool) THEN IsSubsequence(Tail(sub), Tail(pool))
    ELSE IsSubsequence(sub, Tail(pool))

C22_PassesInOrder ==
    [][/\ pass_num' \in {pass_num, pass_num + 1}
       /\ pass_num' # pass_num => pos > Len(unmatched_pairs)
       /\ \A i, j \in DOMAIN attempts' :
             i < j =>
                /\ attempts'[i].pass <= attempts'[j].pass
                /\ attempts'[i].pass = attempts'[j].pass =>
                      ScanPosition(attempts'[i].xml_list) < ScanPosition(attempts'[j].xml_list)
       /\ Attempting =>
             LET g == Current
                 a == Last(attempts')
             IN  /\ attempts' = Append(attempts, a)
                 /\ a.pass = pass_num /\ a.xml_list = g.xml_list
                 /\ Bound(a) =>
                       /\ match_group_to_provider(g.subtitle, g.desc,
                              SubSeq(match_pool, 1, a.index), pass_num) = a.index
                       /\ match_group_to_provider(g.subtitle, g.desc,
                              SubSeq(match_pool, 1, a.index - 1), pass_num) = 0
       /\ IsSubsequence(match_pool', match_pool)
      ]_vars

\* The run is over; two groups were attempted, each in all four passes, and
\* the pool lost its first candidate in between while a later one stayed.
C22_Witness ==
    /\ pc = "done"
    /\ Len(pairs) = 2
    /\ \A k \in 1..4 : \E i, j \in DOMAIN attempts :
          /\ attempts[i].pass = k /\ attempts[j].pass = k
          /\ attempts[i].xml_list = pairs[1].xml_list
          /\ attempts[j].xml_list = pairs[2].xml_list
    /\ \E i \in DOMAIN attempts : BoundEarly(attempts[i]) /\ attempts[i].index = 1
    /\ match_pool # <<>>

(***************************************************************************)
(* normalize applied again and again to one text.  texts holds the         *)
(* argument of the first call followed by the value each call returned.    *)
(***************************************************************************)
MaxText == 3
MaxCalls == 2

NormChars == {"a", "A", "I.", "G+", "+A", " ", "!", ".^"}
NormInputs == BoundedSeq(NormChars, MaxText)

\* build_episode_groups, its callees and fetch_metadata are not running
CrawlerIdle ==
    /\ pos = 0
    /\ match_pool = <<>> /\ pairs = <<>> /\ unmatched_pairs = <<>>
    /\ temp_unmatched = <<>> /\ pass_num = 0 /\ season_map = <<>>
    /\ results = <<>> /\ attempts = <<>> /\ ts_groups = <<>>
    /\ provider_meta = <<>> /\ seen = {}
    /\ listing = <<>> /\ epg_groups = <<>>
    /\ providers = <<>> /\ metadata = <<>>

crawler_vars == <<pos, match_pool, matcher_vars, ts_groups, pool_locals,
                  scan_locals, merger_vars>>

NormInit ==
    /\ texts \in {<<s>> : s \in NormInputs}
    /\ pc = "normalize"
    /\ CrawlerIdle
    /\ paths_txt = <<>> /\ series_name = "" /\ settings = <<>>
    /\ processed = <<>> /\ request = <<>>

\* one call of normalize on the value the previous call returned (lines 57-62)
Normalize ==
    /\ pc = "normalize"
    /\ Len(texts) <= MaxCalls
    /\ texts' = Append(texts, normalize(Last(texts)))
    /\ UNCHANGED <<pc, crawler_vars, config_vars, manual_vars>>

NormNext == Normalize

NormSpec == NormInit /\ [][NormNext]_vars

(***************************************************************************)
(* C23: normalization is idempotent: for every input text,                 *)
(* normalize(normalize(s)) equals normalize(s).                            *)
(***************************************************************************)
C23_NormalizeIdempotent ==
    Len(texts) >= 3 => texts[3] = texts[2]

(***************************************************************************)
(* load_paths.  A line of paths.txt is a key and a value, or a line the    *)
(* parser skips (blank, comment, no "=").  A value is a sequence of        *)
(* tokens: the text, possibly between double quotes.  Ratios are in        *)
(* hundredths, as in the matcher.                                          *)
(***************************************************************************)
MaxLines == 3

Quote == "\""
Entry(k, v) == [key |-> k, value |-> v]
SkippedLine == [key |-> "#", value |-> <<>>]

SeriesInputs == {"A B", "C"}

LineInputs ==
    { Entry("series_name_1", <<"A B">>),
      Entry("series_path_1", <<Quote, "/a", Quote>>),
      Entry("series_name_2", <<"C">>),
      Entry("series_name_50", <<"A B">>),
      Entry("pass4_threshold_A B", <<"10">>),
      Entry("pass2_threshold_A B", <<"0.75">>),
      Entry("pass3_threshold_A B", <<"abc">>),
      SkippedLine }

\* v.strip().strip('"')
Unquote(v) ==
    LET kept == SelectSeq(v, LAMBDA t : t # Quote)
    IN  IF kept = <<>> THEN "" ELSE kept[1]

\* lines 70-77: a later line with the same key replaces the earlier value
RECURSIVE ParseLines(_, _)
ParseLines(lines, config) ==
    IF lines = <<>> THEN config
    ELSE IF Head(lines) = SkippedLine THEN ParseLines(Tail(lines), config)
    ELSE ParseLines(Tail(lines),
                    (Head(lines).key :> Unquote(Head(lines).value)) @@ config)

\* config.get(key, default)
Get(config, key, default) == IF key \in DOMAIN config THEN config[key] ELSE default

\* range(1, 50) and the keys f"series_name_{i}", f"series_path_{i}"; an index
\* that no line of LineInputs uses gives a key that is in no file
SeriesIndices == 1..49
NameKey(i) ==
    CASE i = 1 -> "series_name_1" [] i = 2 -> "series_name_2" [] OTHER -> "series_name_n"
PathKey(i) ==
    CASE i = 1 -> "series_path_1" [] i = 2 -> "series_path_2" [] OTHER -> "series_path_n"

\* f"pass4_threshold_{series_name}" and the like
ThresholdKey(prefix, name) ==
    CASE name = "A B" /\ prefix = "pass4" -> "pass4_threshold_A B"
      [] name = "A B" /\ prefix = "pass2" -> "pass2_threshold_A B"
      [] name = "A B" /\ prefix = "pass3" -> "pass3_threshold_A B"
      [] OTHER -> "threshold_of_another_series"

\* series_name.replace(' ', '_')
Underscored(name) == IF name = "A B" THEN "A_B" ELSE name

\* int(v) and float(v) (hundredths); anything else raises ValueError
IsInt(v) == v \in {"10", "12"}
IntOf(v) == IF v = "10" THEN 10 ELSE 12
IsFloat(v) == v \in {"10", "12", "0.75", "0.80"}
float(v) ==
    CASE v = "10" -> 1000 [] v = "12" -> 1200 [] v = "0.75" -> 75 [] OTHER -> 80

\* the globals as the module sets them when it is imported (lines 32-41)
InitialSettings ==
    [root_folder |-> "", json_folder |-> "", log_path |-> "",
     metadata_json |-> <<>>, output_json |-> <<>>,
     pass4 |-> PASS4_THRESHOLD, pass2 |-> PASS2_THRESHOLD, pass3 |-> PASS3_THRESHOLD]

\* the indices of the loop of line 79 at which line 80 holds
FoundAt(config, name) == {i \in SeriesIndices : Get(config, NameKey(i), "") = name}

\* the text converted at lines 86-88
Override(config, prefix, name, default) ==
    Get(config, ThresholdKey(prefix, name), default)

\* lines 81-85
PathsSet(config, name, i) ==
    LET json_folder == Get(config, "JSON_FOLDER", ".")
    IN  [InitialSettings EXCEPT
            !.root_folder = Get(config, PathKey(i), ""),
            !.json_folder = json_folder,
            !.log_path = Get(config, "LOG_PATH", "."),
            !.metadata_json = <<json_folder, name, ".json">>,
            !.output_json = <<json_folder, Underscored(name), "_Processed.json">>]

LoadInit ==
    /\ paths_txt \in BoundedSeq(LineInputs, MaxLines)
    /\ series_name \in SeriesInputs
    /\ settings = InitialSettings
    /\ pc = "load"
    /\ CrawlerIdle
    /\ texts = <<>>
    /\ processed = <<>> /\ request = <<>>

LoadFrame == UNCHANGED <<crawler_vars, norm_vars, manual_vars, paths_txt, series_name>>

\* lines 70-89: the series is found and every configured threshold converts
LoadReturn ==
    /\ pc = "load"
    /\ LET config == ParseLines(paths_txt, <<>>)
           found == FoundAt(config, series_name)
           p4 == Override(config, "pass4", series_name, "12")
           p2 == Override(config, "pass2", series_name, "0.80")
           p3 == Override(config, "pass3", series_name, "0.80")
       IN  /\ found # {}
           /\ IsInt(p4) /\ IsFloat(p2) /\ IsFloat(p3)
           /\ settings' = [PathsSet(config, series_name, Min(found)) EXCEPT
                              !.pass4 = IntOf(p4), !.pass2 = float(p2), !.pass3 = float(p3)]
    /\ pc' = "loaded"
    /\ LoadFrame

\* lines 70-88: the series is found and int() or float() raises ValueError;
\* the globals assigned before the failing line keep their new values
LoadBadValue ==
    /\ pc = "load"
    /\ LET config == ParseLines(paths_txt, <<>>)
           found == FoundAt(config, series_name)
           p4 == Override(config, "pass4", series_name, "12")
           p2 == Override(config, "pass2", series_name, "0.80")
           p3 == Override(config, "pass3", series_name, "0.80")
           paths == PathsSet(config, series_name, Min(found))
       IN  /\ found # {}
           /\ ~(IsInt(p4) /\ IsFloat(p2) /\ IsFloat(p3))
           /\ settings' =
                 IF ~IsInt(p4) THEN paths
                 ELSE IF ~IsFloat(p2) THEN [paths EXCEPT !.pass4 = IntOf(p4)]
                 ELSE [paths EXCEPT !.pass4 = IntOf(p4), !.pass2 = float(p2)]
    /\ pc' = "raised"
    /\ LoadFrame

\* lines 70-80 and 90: no index of the loop has the series; ValueError
LoadNotFound ==
    /\ pc = "load"
    /\ FoundAt(ParseLines(paths_txt, <<>>), series_name) = {}
    /\ pc' = "raised"
    /\ UNCHANGED settings
    /\ LoadFrame

LoadNext == LoadReturn \/ LoadBadValue \/ LoadNotFound

LoadSpec == LoadInit /\ [][LoadNext]_vars

(***************************************************************************)
(* C24: absence of a required per-series entry is a fatal configuration    *)
(* error: load_paths aborts with an error, without setting any path or     *)
(* threshold, when the requested series has no series-name entry or has a  *)
(* series-name entry but no matching series-path entry; when both are      *)
(* present, the three thresholds take the per-series override if           *)
(* configured and otherwise the defaults 0.80, 0.80 and 12.                *)
(***************************************************************************)
\* the index of the entry that names the series, 0 when there is none, and
\* whether the path entry of that index is present
NamedAt(config, name) ==
    IF \E i \in SeriesIndices : NameKey(i) \in DOMAIN config /\ config[NameKey(i)] = name
    THEN Min({i \in SeriesIndices : NameKey(i) \in DOMAIN config /\ config[NameKey(i)] = name})
    ELSE 0
HasPath(config, name) ==
    NamedAt(config, name) # 0 /\ PathKey(NamedAt(config, name)) \in DOMAIN config

C24_MissingEntryIsFatal ==
    [][pc = "load" =>
        LET config == ParseLines(paths_txt, <<>>)
            k4 == ThresholdKey("pass4", series_name)
            k2 == ThresholdKey("pass2", series_name)
            k3 == ThresholdKey("pass3", series_name)
        IN  IF ~HasPath(config, series_name)
            THEN pc' = "raised" /\ settings' = settings
            ELSE /\ k4 \notin DOMAIN config => settings'.pass4 = 12
                 /\ k2 \notin DOMAIN config => settings'.pass2 = 80
                 /\ k3 \notin DOMAIN config => settings'.pass3 = 80
                 /\ (k4 \in DOMAIN config /\ IsInt(config[k4])) =>
                        settings'.pass4 = IntOf(config[k4])
                 /\ (k2 \in DOMAIN config /\ IsFloat(config[k2])) =>
                        settings'.pass2 = float(config[k2])
                 /\ (k3 \in DOMAIN config /\ IsFloat(config[k3])) =>
                        settings'.pass3 = float(config[k3])
      ]_vars

(***************************************************************************)
(* C25: a candidate that is bound in Pass 1 or Pass 2 is never bound again *)
(* by any group in any pass for the rest of the run; consequently,         *)
(* whenever two matched result entries carry the same canonical (season,   *)
(* episode), both bindings were made in Pass 3 or Pass 4.                  *)
(***************************************************************************)
AttemptKey(a) == <<a.season, a.number>>

C25_EarlyBindingIsFinal ==
    /\ \A i, j \in DOMAIN attempts :
          (i < j /\ BoundEarly(attempts[i]) /\ Bound(attempts[j]))
          => AttemptKey(attempts[i]) # AttemptKey(attempts[j])
    /\ \A i, j \in DOMAIN attempts :
          (/\ i # j /\ Bound(attempts[i]) /\ Bound(attempts[j])
           /\ AttemptKey(attempts[i]) = AttemptKey(attempts[j]))
          => attempts[i].pass \in {3, 4} /\ attempts[j].pass \in {3, 4}

\* A candidate was bound in Pass 1; a later pass attempted a group whose
\* subtitle is one of that candidate's titles and bound it to another
\* candidate or to none; and two groups were bound to one candidate in
\* Pass 3 or Pass 4.
C25_Witness ==
    /\ \E i, j \in DOMAIN attempts :
          /\ i < j /\ BoundEarly(attempts[i]) /\ attempts[j].pass > attempts[i].pass
          /\ \E g \in Range(pairs) :
                /\ g.xml_list = attempts[j].xml_list
                /\ normalize(g.subtitle) \in Range(attempts[i].titles)
    /\ \E k, l \in DOMAIN attempts :
          /\ k < l /\ Bound(attempts[k]) /\ Bound(attempts[l])
          /\ attempts[k].xml_list # attempts[l].xml_list
          /\ AttemptKey(attempts[k]) = AttemptKey(attempts[l])

(***************************************************************************)
(* C26: no recording group removes more than one candidate from the pool   *)
(* during a run: the pool size equals the initial pool size minus the      *)
(* number of distinct recording groups that were bound in Pass 1 or        *)
(* Pass 2, at the end of the run and hence after every step of it.         *)
(***************************************************************************)
\* the groups bound in Pass 1 or Pass 2 among the attempts as
EarlyGroups(as) == {as[j].xml_list : j \in {k \in DOMAIN as : BoundEarly(as[k])}}

C26_OneCandidatePerGroup ==
    [][Len(match_pool') + Cardinality(EarlyGroups(attempts'))
         = Len(match_pool) + Cardinality(EarlyGroups(attempts))]_vars

(***************************************************************************)
(* C27: because the pool only shrinks, a group that was not bound in       *)
(* Pass 1 is never accepted through the exact-equality branch of Pass 2:   *)
(* every Pass 2 binding of such a group comes from the similarity-ratio    *)
(* branch.                                                                 *)
(***************************************************************************)
\* the group being attempted was bound in Pass 1
BoundInPass1(xs) ==
    \E j \in AttemptsOf(xs) : attempts[j].pass = 1 /\ Bound(attempts[j])

C27_ExactBranchDeadInPass2 ==
    [][(Attempting /\ pass_num = 2 /\ ~BoundInPass1(Current.xml_list)) =>
        LET key_sub == normalize(Current.subtitle)
            a == Last(attempts')
        IN  /\ ExactCandidates(key_sub, match_pool) = {}
            /\ Bound(a) =>
                  /\ key_sub \notin Range(NonEmptyTitles(match_pool[a.index]))
                  /\ \E t \in Range(NonEmptyTitles(match_pool[a.index])) :
                        TitleRatio[key_sub][t] >= PASS2_THRESHOLD
      ]_vars

\* A group went unbound through Pass 1 and was bound in Pass 2 to a candidate
\* none of whose titles equals its subtitle.
C27_Witness ==
    \E i, j \in DOMAIN attempts :
        /\ attempts[i].xml_list = attempts[j].xml_list
        /\ attempts[i].pass = 1 /\ ~Bound(attempts[i])
        /\ attempts[j].pass = 2 /\ Bound(attempts[j])
        /\ \E g \in Range(pairs) :
              /\ g.xml_list = attempts[j].xml_list
              /\ normalize(g.subtitle) \notin Range(attempts[j].titles)

(***************************************************************************)
(* C28: Passes 2, 3 and 4 are first-fit: the candidate bound is the first  *)
(* candidate in pool order that meets the pass's acceptance condition,     *)
(* even when a later candidate in the pool has a strictly higher           *)
(* similarity ratio or token overlap, or (in Pass 2) a title exactly equal *)
(* to the subtitle.                                                        *)
(***************************************************************************)
\* the acceptance conditions of Passes 2, 3 and 4 as C5, C6, C7 and C9 state
\* them, and the best score of a candidate in each pass
Overlaps(key_desc, m) == {OverlapTable[key_desc][m.overviews[k]] : k \in DOMAIN m.overviews}

Meets(pass, g, m) ==
    LET key_sub == normalize(g.subtitle)
        key_desc == normalize(g.desc)
        best == Max(TitleRatios(key_sub, m), 0)
    IN  CASE pass = 2 -> C5_Acceptable(key_sub, m)
          [] pass = 3 -> /\ WordCount[key_desc] >= 10
                         /\ \E r \in SnippetRatios(key_desc, m) : r >= PASS3_THRESHOLD
          [] pass = 4 -> /\ \E n \in Overlaps(key_desc, m) : n >= PASS4_THRESHOLD
                         /\ best >= PASS4_TITLE_GUARD
                         /\ m.season = 0 => best >= PASS4_SPECIALS_GUARD
          [] OTHER -> FALSE

Score(pass, g, m) ==
    LET key_sub == normalize(g.subtitle)
        key_desc == normalize(g.desc)
    IN  CASE pass = 2 -> Max(TitleRatios(key_sub, m), 0)
          [] pass = 3 -> Max(SnippetRatios(key_desc, m), 0)
          [] OTHER -> Max(Overlaps(key_desc, m), 0)

Outscored(j) ==
    \E g \in Range(pairs), m, n \in Range(match_pool) :
        /\ g.xml_list = attempts[j].xml_list
        /\ KeyOf(m) = AttemptKey(attempts[j])
        /\ KeyOf(n) # KeyOf(m)
        /\ Score(attempts[j].pass, g, n) > Score(attempts[j].pass, g, m)
        /\ Meets(attempts[j].pass, g, n)

C28_WitnessPass3 ==
    /\ pass_num \in {3, 4}
    /\ \E j \in DOMAIN attempts :
          attempts[j].pass = 3 /\ Bound(attempts[j]) /\ Outscored(j)

(***************************************************************************)
(* C29: in the final output's season-0 bucket no synthetic unmatched entry *)
(* has the same episode number as a matched real season-0 (specials)       *)
(* entry.                                                                  *)
(***************************************************************************)
C29_NoNumberCollision ==
    pc = "done" =>
        \A i, j \in DOMAIN attempts :
            (~Bound(attempts[i]) /\ Bound(attempts[j]) /\ attempts[j].season = 0)
            => \/ attempts[i].number # attempts[j].number
               \/ ~(\E k, l \in DOMAIN ResultBucket(0) :
                      /\ k # l
                      /\ ResultBucket(0)[k].episode_number = attempts[i].number
                      /\ ResultBucket(0)[l].episode_number = attempts[j].number)

(***************************************************************************)
(* match_unmatched.match_episode.  processed is the content of the         *)
(* processed file: which of the sections "unmatched" and "matches" it has, *)
(* the list of unmatched entries and the matches by key.  The files on     *)
(* disk are not part of the state: the folder holds no related file, and   *)
(* only the paths written into the processed file are followed.            *)
(***************************************************************************)
MaxUnmatched == 2

\* the (season, episode) pairs of the series metadata file (lines 96-117)
MetaEpisodes == {<<1, 1>>, <<1, 2>>}

\* f"{n:02d}"
Pad2(n) == CASE n = 1 -> "01" [] n = 2 -> "02" [] n = 3 -> "03" [] OTHER -> "nn"

\* line 128: f"{series_name}-S{season:02d}E{episode:02d}"
group_id(name, season, episode) == <<name, "-S", Pad2(season), "E", Pad2(episode)>>

\* the test of line 85 on a line of paths.txt
IsRootLine(line, name) ==
    /\ line.key \in {"series_path_1", "series_path_2"}
    /\ \E i \in 1..(Len(line.value) - 1) :
          line.value[i] = "series_name_]=" /\ line.value[i + 1] = name

\* lines 82-87: the value of the first such line without its quotes, the
\* empty text when there is none
root_folder(lines, name) ==
    LET hits == {i \in DOMAIN lines : IsRootLine(lines[i], name)}
    IN  IF hits = {} THEN <<>>
        ELSE SelectSeq(lines[Min(hits)].value, LAMBDA t : t # Quote)

\* a paths.txt as load_paths expects it, and one with a line that passes the
\* test of line 85
UsualPaths == <<Entry("series_name_1", <<"A B">>), Entry("series_path_1", <<Quote, "/a", Quote>>)>>
OddPaths == UsualPaths \o <<Entry("series_path_2", <<"series_name_]=", "A B">>)>>

SubtitleInputs == {<<"A">>, <<"a">>, <<"b">>}
OriginalOf(i) == CASE i = 1 -> "/a/r1.ts" [] i = 2 -> "/a/r2.ts" [] OTHER -> "/a/r3.ts"

\* the unmatched section: the i-th entry has the i-th recording as original
UnmatchedOf(subs) ==
    [i \in DOMAIN subs |->
        [subtitle |-> subs[i], originals |-> <<[path |-> OriginalOf(i)]>>]]

\* an entry the matches section may hold already
OldMatch(key) ==
    [episode_meta |-> [season |-> 1, episode |-> IF key[5] = "01" THEN 1 ELSE 2],
     originals |-> <<[path |-> "/a/old.ts"]>>]

ProcessedInputs ==
    { [sections |-> {"unmatched", "matches"}, unmatched |-> UnmatchedOf(subs),
       matches |-> [k \in K |-> OldMatch(k)]] :
        subs \in BoundedSeq(SubtitleInputs, MaxUnmatched),
        K \in SUBSET {group_id("A B", 1, 1), group_id("A B", 1, 2)} }
    \cup
    { [sections |-> {"unmatched"}, unmatched |-> UnmatchedOf(subs), matches |-> <<>>] :
        subs \in BoundedSeq(SubtitleInputs, MaxUnmatched) }
    \cup
    { [sections |-> {"matches"}, unmatched |-> <<>>,
       matches |-> [k \in {group_id("A B", 1, 1)} |-> OldMatch(k)]] }

RequestInputs ==
    [subtitle : {<<"A">>, <<"b">>}, season : {1}, episode : {1, 2, 3}, do_rename : BOOLEAN]

\* rename_files (lines 43-74) with no related file on disk: the paths stored
\* for the entry
rename_files(name, season, episode, originals, root, do_rename) ==
    IF ~do_rename THEN originals
    ELSE [i \in DOMAIN originals |->
            [originals[i] EXCEPT !.path = <<root, group_id(name, season, episode), ".ts">>]]

\* line 94: the positions of the unmatched entries with the subtitle
SubtitleHits(unmatched, subtitle) ==
    {i \in DOMAIN unmatched : Lower(unmatched[i].subtitle) = Lower(subtitle)}

\* line 133
UnmatchedAfterMove(unmatched, i) == RemoveAt(unmatched, i)

MatchInit ==
    /\ processed \in ProcessedInputs
    /\ request \in RequestInputs
    /\ paths_txt \in {UsualPaths, OddPaths}
    /\ series_name = "A B"
    /\ settings = <<>>
    /\ pc = "match"
    /\ CrawlerIdle
    /\ texts = <<>>

MatchFrame == UNCHANGED <<crawler_vars, norm_vars, config_vars, request>>

\* lines 88-90
MatchNoRoot ==
    /\ pc = "match"
    /\ root_folder(paths_txt, series_name) = <<>>
    /\ pc' = "no_root"
    /\ UNCHANGED processed
    /\ MatchFrame

\* line 138
MatchNotFound ==
    /\ pc = "match"
    /\ root_folder(paths_txt, series_name) # <<>>
    /\ SubtitleHits(processed.unmatched, request.subtitle) = {}
    /\ pc' = "not_found"
    /\ UNCHANGED processed
    /\ MatchFrame

\* lines 119-121
MatchNoEpisode ==
    /\ pc = "match"
    /\ root_folder(paths_txt, series_name) # <<>>
    /\ SubtitleHits(processed.unmatched, request.subtitle) # {}
    /\ <<request.season, request.episode>> \notin MetaEpisodes
    /\ pc' = "no_episode"
    /\ UNCHANGED processed
    /\ MatchFrame

\* lines 123-136; without a "matches" section the dictionary of line 79 is
\* not part of data, so what line 129 stores is not saved
MatchMoved ==
    /\ pc = "match"
    /\ root_folder(paths_txt, series_name) # <<>>
    /\ SubtitleHits(processed.unmatched, request.subtitle) # {}
    /\ <<request.season, request.episode>> \in MetaEpisodes
    /\ LET i == Min(SubtitleHits(processed.unmatched, request.subtitle))
           key == group_id(series_name, request.season, request.episode)
           moved == [episode_meta |-> [season |-> request.season,
                                       episode |-> request.episode],
                     originals |-> rename_files(series_name, request.season,
                                      request.episode, processed.unmatched[i].originals,
                                      root_folder(paths_txt, series_name),
                                      request.do_rename)]
       IN  processed' =
              [processed EXCEPT
                  !.unmatched = UnmatchedAfterMove(@, i),
                  !.matches = IF "matches" \in processed.sections
                              THEN (key :> moved) @@ @ ELSE @]
    /\ pc' = "moved"
    /\ MatchFrame

MatchNext == MatchNoRoot \/ MatchNotFound \/ MatchNoEpisode \/ MatchMoved

MatchSpec == MatchInit /\ [][MatchNext]_vars

(***************************************************************************)
(* C30: match_episode conserves the entries of the processed file.  A      *)
(* successful move removes exactly the first unmatched entry whose         *)
(* subtitle equals the given subtitle case-insensitively and stores it     *)
(* under the key '<series>-SxxEyy' in matches, so that the number of       *)
(* entries in matches plus unmatched is the same before and after and no   *)
(* other entry is lost or changed (also when the key already exists in     *)
(* matches or the file has no matches section); when the target episode is *)
(* not in the series metadata, the processed file is left unchanged.       *)
(***************************************************************************)
EntryCount(data) == Len(data.unmatched) + Cardinality(DOMAIN data.matches)

C30_MoveConservesEntries ==
    [][/\ pc' = "moved" =>
            LET i == Min(SubtitleHits(processed.unmatched, request.subtitle))
                key == group_id(series_name, request.season, request.episode)
            IN  /\ processed'.unmatched = RemoveAt(processed.unmatched, i)
                /\ key \in DOMAIN processed'.matches
                /\ EntryCount(processed') = EntryCount(processed)
                /\ \A k \in DOMAIN processed.matches :
                      k \in DOMAIN processed'.matches
                      /\ processed'.matches[k] = processed.matches[k]
       /\ (/\ pc = "match"
           /\ <<request.season, request.episode>> \notin MetaEpisodes)
          => processed' = processed
      ]_vars
====
